---- MODULE Spec2Model ----
(***************************************************************************)
(* Projector session coordinator of SimpleProjector (Electron main         *)
(* process): the module-level session variables and the IPC handlers that  *)
(* read and write them.  Every IPC handler is an async function without an *)
(* await, so each handler runs to completion and is one atomic action.     *)
(***************************************************************************)
EXTENDS Integers, Sequences, FiniteSets, TLC

\* ------------------------------------------------------------------ bounds
MaxFiles == 3

\* The longest time, in tenths of a second, a video reports or a slider is set to
MaxTime == 6

\* Fallback timeouts of the control surface armed at once
MaxTimeouts == 2

\* Requests of one renderer on their way to the coordinator at once
MaxInFlight == 1

\* Commands the operator gives on the control surface in one run
MaxCommands == 2
\* Messages the display surface has not handled yet when a timer fires or
\* the operator acts
MaxPending == 2


\* ------------------------------------------------------------- state
VARIABLES
    mainWindow,             \* TRUE iff isMainWindowValid()
    projectorWindow,        \* "null" | "loading" | "loaded"
    projectorFiles,         \* sequence of file ids
    projectorFilesOrder,    \* sequence of 0-based file indices
    currentProjectorIndex,  \* 0-based position into projectorFilesOrder
    isProjectorPlaying,
    projectorSettings,      \* NullSettings or a settings record
    isShowingBackground,
    cmd,                    \* the command handled by the last step
    result,                 \* the value that command returned
    toProjector,            \* events the last step sent to the projector window
    toMain,                 \* events the last step sent to the main window
    announced,              \* indices returned by the advance(next) run since Open
    scan,                   \* locals of the repeat-avoidance do-while
    app,                    \* the control surface (App.tsx): its React state and refs
    view,                   \* the display surface (ProjectorView.tsx): state, refs, timers
    wire                    \* IPC messages in flight between the three processes

vars == <<mainWindow, projectorWindow, projectorFiles, projectorFilesOrder,
          currentProjectorIndex, isProjectorPlaying, projectorSettings,
          isShowingBackground, cmd, result, toProjector, toMain, announced,
          scan, app, view, wire>>

\* The two renderer processes and the channels to them
renderers == <<app, view, wire>>

session == <<projectorFiles, projectorFilesOrder, currentProjectorIndex,
             isProjectorPlaying, projectorSettings, isShowingBackground>>

\* ------------------------------------------------------------- values
NullSettings == [null |-> TRUE]

SettingsInputs ==
    [loop : BOOLEAN, random : BOOLEAN, enableTimeBetweenElements : BOOLEAN]

\* A file list of n entries, each entry standing for its unique id
FilesOfLen(n) == [k \in 1..n |-> k]

FileLists == {FilesOfLen(n) : n \in 0..MaxFiles}

Directions == {"next", "previous"}

IndexInputs == (-1)..MaxFiles

\* Volume levels, seek times and progress readings carried through unread
PassThroughValues == 0..1

\* webContents.send(channel, payload): one payload field per payload type,
\* the fields a channel does not carry hold a default
Event(ch, index, flag, settings, files) ==
    [ch |-> ch, index |-> index, flag |-> flag,
     settings |-> settings, files |-> files]

Nav(i) == Event("projector-navigate", i, FALSE, NullSettings, <<>>)
PlayPause(b) == Event("projector-play-pause", 0, b, NullSettings, <<>>)
SettingsEv(s) == Event("projector-settings", 0, FALSE, s, <<>>)
FilesUpdated(f) == Event("projector-files-updated", 0, FALSE, NullSettings, f)
VolumeEv(v) == Event("projector-volume", v, FALSE, NullSettings, <<>>)
SeekEv(t) == Event("projector-seek-video", t, FALSE, NullSettings, <<>>)
VideoProgressEv(p) == Event("projector-video-progress", p, FALSE, NullSettings, <<>>)
TimerProgressEv(p) == Event("projector-timer-progress", p, FALSE, NullSettings, <<>>)
Opened == Event("projector-opened", 0, FALSE, NullSettings, <<>>)
ClosedEv == Event("projector-closed", 0, FALSE, NullSettings, <<>>)

\* The command record: its name, its argument (direction, index or
\* settings; the others hold a default) and the position it found
Command(op, dir, index, settings) ==
    [op |-> op, dir |-> dir, index |-> index, settings |-> settings,
     pre |-> [cursor |-> currentProjectorIndex,
              background |-> isShowingBackground]]

NoHistory == [ok |-> FALSE, seq |-> <<>>]

\* The do-while's locals while no advance is inside it
NoScan ==
    [pc |-> "idle", dir |-> "none", from |-> 0, startIndex |-> 0,
     currentFileIndex |-> 0, foundDifferent |-> FALSE, probes |-> 0]

\* null in a renderer's state: no index, no progress, no dragged value
Null == -3

\* The type of a file: of the files listed, the second is a video and the
\* others are images
FileType(id) == IF id = 2 THEN "video" ELSE "image"

\* The control surface as mounted: no projector, nothing in progress
AppInitial ==
    [files |-> <<>>,
     settings |-> [loop |-> TRUE, random |-> FALSE,
                   enableTimeBetweenElements |-> TRUE],
     autoPlayVideos |-> TRUE,
     isProjectorOpen |-> FALSE,
     currentProjectorIndex |-> Null,
     isPlaying |-> FALSE,
     currentFileType |-> "null",
     videoProgress |-> Null,
     timerProgress |-> Null,
     isDraggingProgress |-> FALSE,
     draggedProgressValue |-> Null,
     mouseDown |-> FALSE,
     fallbackTimeouts |-> 0,
     seekRequested |-> Null,
     last |-> [ch |-> "none", value |-> 0]]

\* The settings the display surface reads; defaultSettings has all three on
ViewSettingsInputs ==
    [enableTimeBetweenElements : BOOLEAN, autoPlayVideos : BOOLEAN,
     loop : BOOLEAN]

defaultSettings ==
    [enableTimeBetweenElements |-> TRUE, autoPlayVideos |-> TRUE,
     loop |-> TRUE]

\* The display surface before its component is mounted: the useState and
\* useRef initial values, no interval running
ViewInitial ==
    [mounted |-> FALSE,
     loading |-> FALSE,
     reloading |-> 0,
     files |-> <<>>,
     currentIndex |-> 0,
     isPlaying |-> FALSE,
     settings |-> defaultSettings,
     hasAutoStarted |-> FALSE,
     isAutoPlayChange |-> FALSE,
     playInterval |-> <<>>,
     timerProgressInterval |-> <<>>,
     videoProgressInterval |-> <<>>]

\* An ipcRenderer.invoke on its way to the coordinator
Request(from, op, dir, index) ==
    [from |-> from, op |-> op, dir |-> dir, index |-> index,
     settings |-> NullSettings, files |-> <<>>]

\* An invoke of the control surface that carries settings or a file list
AppRequest(op, settings, files) ==
    [from |-> "app", op |-> op, dir |-> "none", index |-> 0,
     settings |-> settings, files |-> files]

\* The value an invoke resolves to, queued behind the events sent before it
Reply(op, index, flag, settings, files) ==
    Event(op, index, flag, settings, files)

\* No answer of get-projector-files waiting for the rest of loadData's Promise.all
NoSnapshot == Reply("none", 0, FALSE, NullSettings, <<>>)

\* No message in flight, no command issued, nothing navigated to yet
WireInitial ==
    [toCoordinator |-> <<>>,
     toView |-> <<>>,
     toApp |-> <<>>,
     loaded |-> NoSnapshot,
     lastNavigate |-> Null,
     lastAnnounced |-> Null,
     closing |-> FALSE,
     commands |-> 0]

\* ------------------------------------------------------------- helpers
isMainWindowValid == mainWindow

\* A window still loading taken for no window at all
isProjectorWindowValidOnceLoaded == projectorWindow = "loaded"

isProjectorWindowValid == projectorWindow # "null"

\* notifyProjectorWindow: the events reach webContents.send only if the window is valid
notifyProjectorWindow(evs) == IF isProjectorWindowValid THEN evs ELSE <<>>

notifyMainWindow(evs) == IF isMainWindowValid THEN evs ELSE <<>>

\* files.map((_, i) => i)
IndexMap(n) == [k \in 1..n |-> k - 1]

\* Swap that loses s[i]: the second half of the destructuring is missing
SwapDropsEntry(s, i, j) == [s EXCEPT ![i] = s[j]]

Swap(s, i, j) == [s EXCEPT ![i] = s[j], ![j] = s[i]]

\* The results the Fisher-Yates loop can produce from step i (1-based) down
\* to 2; Math.floor(Math.random() * (i + 1)) is any j of 0..i (here 1..i).
RECURSIVE ShuffleFrom(_, _)
ShuffleFrom(s, i) ==
    IF i <= 1 THEN {s}
    ELSE UNION {ShuffleFrom(Swap(s, i, j), i - 1) : j \in 1..i}

shuffleArray(array) == ShuffleFrom(array, Len(array))

\* Settings stored as requested, without the loop check
ValidatedSettingsKeepsRandom(settings) == settings

\* Shuffle switched off whatever the loop flag says
ValidatedSettingsNeverRandom(settings) == [settings EXCEPT !.random = FALSE]

\* random: settings.loop ? settings.random : false
ValidatedSettings(settings) ==
    [settings EXCEPT !.random = IF settings.loop THEN settings.random ELSE FALSE]

\* The orders createProjectorWindow / update-projector-settings can store
OrdersFor(n, random) ==
    IF random THEN shuffleArray(IndexMap(n)) ELSE {IndexMap(n)}

\* What reading an array outside its bounds yields (undefined): no index
Undefined == -2

\* order[c] with the code's 0-based positions
At(order, c) == IF c + 1 \in DOMAIN order THEN order[c + 1] ELSE Undefined

Init ==
    /\ mainWindow = TRUE
    /\ projectorWindow = "null"
    /\ projectorFiles = <<>>
    /\ projectorFilesOrder = <<>>
    /\ currentProjectorIndex = 0
    /\ isProjectorPlaying = FALSE
    /\ projectorSettings = NullSettings
    /\ isShowingBackground = FALSE
    /\ cmd = Command("none", "none", 0, NullSettings)
    /\ result = [success |-> TRUE]
    /\ toProjector = <<>>
    /\ toMain = <<>>
    /\ announced = NoHistory
    /\ scan = NoScan
    /\ app = AppInitial
    /\ view = ViewInitial
    /\ wire = WireInitial

\* createProjectorWindow(files, settings) followed by the handler's own
\* notifyMainWindow('projector-opened')
OpenProjectorWindow(files, settings) ==
    LET v == ValidatedSettings(settings)
        playing == v.enableTimeBetweenElements
    IN  \E order \in OrdersFor(Len(files), v.random) :
          LET initialIndex == IF Len(order) > 0 THEN order[1] ELSE 0 IN
          /\ UNCHANGED <<scan, renderers>>
          /\ cmd' = Command("open", "none", 0, settings)
          /\ projectorFiles' = files
          /\ projectorSettings' = v
          /\ currentProjectorIndex' = 0
          /\ isShowingBackground' = FALSE
          /\ isProjectorPlaying' = playing
          /\ projectorFilesOrder' = order
          /\ IF isProjectorWindowValid
             THEN /\ projectorWindow' = projectorWindow
                  /\ toProjector' = <<SettingsEv(v), Nav(initialIndex)>>
                                    \o (IF playing THEN <<PlayPause(TRUE)>> ELSE <<>>)
                  /\ toMain' = notifyMainWindow(
                                    (IF playing THEN <<PlayPause(TRUE)>> ELSE <<>>)
                                    \o <<Opened, Nav(initialIndex), Opened>>)
             ELSE /\ projectorWindow' = "loading"
                  /\ toProjector' = <<>>
                  /\ toMain' = notifyMainWindow(<<Opened>>)
          /\ result' = [success |-> TRUE]
          /\ announced' = [ok |-> TRUE, seq |-> <<>>]
          /\ UNCHANGED mainWindow

\* projectorFilesOrder.indexOf(x), 0-based, -1 when absent
IndexOf(order, x) ==
    IF \E k \in 1..Len(order) : order[k] = x
    THEN (CHOOSE k \in 1..Len(order) :
              /\ order[k] = x
              /\ \A m \in 1..(k - 1) : order[m] # x) - 1
    ELSE -1

\* projectorSettings && !projectorSettings.loop
LoopDisabled(settings) == settings # NullSettings /\ ~settings.loop

\* projectorSettings && projectorSettings.random && projectorSettings.loop
RandomLoop(settings) ==
    settings # NullSettings /\ settings.random /\ settings.loop

\* The do-while of the next branch: step forward until an entry differs from
\* currentFileIndex or the scan is back at startIndex.
RECURSIVE SkipSameNext(_, _, _, _)
SkipSameNext(order, cur, startIndex, currentFileIndex) ==
    LET c == (cur + 1) % Len(order) IN
    IF At(order, c) # currentFileIndex THEN c
    ELSE IF c = startIndex THEN c
    ELSE SkipSameNext(order, c, startIndex, currentFileIndex)

\* The do-while of the previous branch.
RECURSIVE SkipSamePrev(_, _, _, _)
SkipSamePrev(order, cur, startIndex, currentFileIndex) ==
    LET c == (cur - 1 + Len(order)) % Len(order) IN
    IF At(order, c) # currentFileIndex THEN c
    ELSE IF c = startIndex THEN c
    ELSE SkipSamePrev(order, c, startIndex, currentFileIndex)

\* Next with > in place of >= : the last position wraps even when loop is off
NextTargetOffByOne(order, cursor, settings) ==
    IF cursor + 1 > Len(order) /\ LoopDisabled(settings) THEN -1
    ELSE (cursor + 1) % Len(order)

\* Next that stays on the last position instead of wrapping
NextTargetStaysAtEnd(order, cursor, settings) ==
    IF cursor + 1 >= Len(order)
    THEN IF LoopDisabled(settings) THEN -1 ELSE cursor
    ELSE cursor + 1

\* Next that stops at the end whatever the loop flag says
NextTargetIgnoresLoop(order, cursor, settings) ==
    IF cursor + 1 >= Len(order) THEN -1 ELSE cursor + 1

\* direction === 'next': the new currentProjectorIndex, or -1 where the
\* handler returns navigateToBackground()
NextTarget(order, cursor, settings) ==
    LET nextIndex == cursor + 1
        currentFileIndex == At(order, cursor)
        c == nextIndex % Len(order)
    IN  IF nextIndex >= Len(order) /\ LoopDisabled(settings) THEN -1
        ELSE IF /\ RandomLoop(settings)
                /\ Len(order) > 1
                /\ At(order, c) = currentFileIndex
             THEN SkipSameNext(order, c, c, currentFileIndex)
             ELSE c

\* Previous that stops at the start whatever the loop flag says
PreviousTargetIgnoresLoop(order, cursor, settings) ==
    IF cursor - 1 < 0 THEN -1 ELSE cursor - 1

\* Previous that wraps to the first position instead of the last
PreviousTargetWrapsToFirst(order, cursor, settings) ==
    IF cursor - 1 < 0
    THEN IF LoopDisabled(settings) THEN -1 ELSE 0
    ELSE cursor - 1

\* direction === 'previous'
PreviousTarget(order, cursor, settings) ==
    LET prevIndex == cursor - 1
        currentFileIndex == At(order, cursor)
        c == Len(order) - 1
    IN  IF prevIndex < 0
        THEN IF LoopDisabled(settings) THEN -1
             ELSE IF /\ RandomLoop(settings)
                     /\ Len(order) > 1
                     /\ At(order, c) = currentFileIndex
                  THEN SkipSamePrev(order, c, c, currentFileIndex)
                  ELSE c
        ELSE prevIndex

\* Leaving the background at the wrong end
ResumeTargetSwapped(order, direction) ==
    IF direction = "next" THEN Len(order) - 1 ELSE 0

\* Leaving the background: direction === 'next' ? 0 : projectorFilesOrder.length - 1
ResumeTarget(order, direction) ==
    IF direction = "next" THEN 0 ELSE Len(order) - 1

\* Background announced before playback is stopped
navigateToBackgroundSwapped ==
    [playing |-> FALSE, background |-> TRUE,
     events |-> <<Nav(-1), PlayPause(FALSE)>>,
     ret |-> [success |-> TRUE, index |-> -1]]

\* navigateToBackground(): new flags, the events sent to both windows, the return value
navigateToBackground ==
    [playing |-> FALSE, background |-> TRUE,
     events |-> <<PlayPause(FALSE), Nav(-1)>>,
     ret |-> [success |-> TRUE, index |-> -1]]

\* An item announced without leaving the background
navigateToIndexKeepsBackground(index) ==
    [background |-> isShowingBackground,
     events |-> <<Nav(index)>>,
     ret |-> [success |-> TRUE, index |-> index]]

\* navigateToIndex(index)
navigateToIndex(index) ==
    [background |-> FALSE,
     events |-> <<Nav(index)>>,
     ret |-> [success |-> TRUE, index |-> index]]

\* The advance(next) run recorded since Open: extended by a next, dropped by
\* anything else.
Announce(direction, index) ==
    IF /\ announced.ok
       /\ direction = "next"
       /\ Len(announced.seq) <= Len(projectorFiles)
    THEN [announced EXCEPT !.seq = Append(@, index)]
    ELSE NoHistory

\* ipcMain.handle('navigate-projector')
NavigateProjector(direction) ==
    /\ UNCHANGED <<scan, renderers>>
    /\ cmd' = Command("navigate", direction, 0, NullSettings)
    /\ IF \/ ~isProjectorWindowValid
          \/ Len(projectorFiles) = 0
          \/ Len(projectorFilesOrder) = 0
       THEN /\ isShowingBackground' = TRUE
            /\ toProjector' = notifyProjectorWindow(<<Nav(-1)>>)
            /\ toMain' = notifyMainWindow(<<Nav(-1)>>)
            /\ result' = [success |-> TRUE, index |-> -1]
            /\ UNCHANGED <<currentProjectorIndex, isProjectorPlaying>>
       ELSE IF isShowingBackground
       THEN LET c == ResumeTarget(projectorFilesOrder, direction)
                r == navigateToIndex(At(projectorFilesOrder, c))
            IN  /\ currentProjectorIndex' = c
                /\ isShowingBackground' = r.background
                /\ toProjector' = notifyProjectorWindow(r.events)
                /\ toMain' = notifyMainWindow(r.events)
                /\ result' = r.ret
                /\ UNCHANGED isProjectorPlaying
       ELSE LET t == IF direction = "next"
                     THEN NextTarget(projectorFilesOrder,
                                     currentProjectorIndex, projectorSettings)
                     ELSE PreviousTarget(projectorFilesOrder,
                                         currentProjectorIndex, projectorSettings)
            IN  IF t = -1
                THEN LET r == navigateToBackground IN
                     /\ isProjectorPlaying' = r.playing
                     /\ isShowingBackground' = r.background
                     /\ toProjector' = notifyProjectorWindow(r.events)
                     /\ toMain' = notifyMainWindow(r.events)
                     /\ result' = r.ret
                     /\ UNCHANGED currentProjectorIndex
                ELSE LET r == navigateToIndex(At(projectorFilesOrder, t)) IN
                     /\ currentProjectorIndex' = t
                     /\ isShowingBackground' = r.background
                     /\ toProjector' = notifyProjectorWindow(r.events)
                     /\ toMain' = notifyMainWindow(r.events)
                     /\ result' = r.ret
                     /\ UNCHANGED isProjectorPlaying
    /\ announced' = Announce(direction, result'.index)
    /\ UNCHANGED <<mainWindow, projectorWindow, projectorFiles,
                   projectorFilesOrder, projectorSettings>>

\* Only the first guard of the handler: no bounds check, no indexOf check
JumpFailsOnlyWithoutSession(targetIndex) ==
    \/ ~isProjectorWindowValid
    \/ Len(projectorFiles) = 0
    \/ Len(projectorFilesOrder) = 0

\* The three early returns { success: false } of navigate-projector-to-index
JumpFails(targetIndex) ==
    \/ ~isProjectorWindowValid
    \/ Len(projectorFiles) = 0
    \/ Len(projectorFilesOrder) = 0
    \/ targetIndex < 0
    \/ targetIndex >= Len(projectorFiles)
    \/ IndexOf(projectorFilesOrder, targetIndex) < 0

\* ipcMain.handle('navigate-projector-to-index')
NavigateProjectorToIndex(targetIndex) ==
    /\ UNCHANGED <<scan, renderers>>
    /\ cmd' = Command("jumpTo", "none", targetIndex, NullSettings)
    /\ announced' = NoHistory
    /\ LET orderIndex == IndexOf(projectorFilesOrder, targetIndex) IN
       IF JumpFails(targetIndex)
       THEN /\ result' = [success |-> FALSE]
            /\ toProjector' = <<>>
            /\ toMain' = <<>>
            /\ UNCHANGED <<currentProjectorIndex, isShowingBackground>>
       ELSE LET r == navigateToIndex(targetIndex) IN
            /\ currentProjectorIndex' = orderIndex
            /\ isShowingBackground' = r.background
            /\ toProjector' = notifyProjectorWindow(r.events)
            /\ toMain' = notifyMainWindow(r.events)
            /\ result' = r.ret
    /\ UNCHANGED <<mainWindow, projectorWindow, projectorFiles,
                   projectorFilesOrder, projectorSettings, isProjectorPlaying>>

\* Any toggle in Background pulls the cursor back, a pause included
PlayFromBackgroundOnAnyToggle(wasPlaying, nowPlaying) ==
    /\ isShowingBackground
    /\ Len(projectorFilesOrder) > 0

\* isShowingBackground && isProjectorPlaying && !wasPlaying && order.length > 0
PlayFromBackground(wasPlaying, nowPlaying) ==
    /\ isShowingBackground
    /\ nowPlaying
    /\ ~wasPlaying
    /\ Len(projectorFilesOrder) > 0

\* ipcMain.handle('toggle-projector-play-pause')
ToggleProjectorPlayPause ==
    /\ UNCHANGED <<scan, renderers>>
    /\ cmd' = Command("togglePlayPause", "none", 0, NullSettings)
    /\ announced' = NoHistory
    /\ IF ~isProjectorWindowValid
       THEN /\ result' = [success |-> FALSE]
            /\ toProjector' = <<>>
            /\ toMain' = <<>>
            /\ UNCHANGED <<currentProjectorIndex, isShowingBackground,
                           isProjectorPlaying>>
       ELSE LET wasPlaying == isProjectorPlaying
                nowPlaying == ~isProjectorPlaying
                fromBackground == PlayFromBackground(wasPlaying, nowPlaying)
                events == (IF fromBackground
                           THEN <<Nav(At(projectorFilesOrder, 0))>>
                           ELSE <<>>) \o <<PlayPause(nowPlaying)>>
            IN  /\ isProjectorPlaying' = nowPlaying
                /\ isShowingBackground' =
                       IF fromBackground THEN FALSE ELSE isShowingBackground
                /\ currentProjectorIndex' =
                       IF fromBackground THEN 0 ELSE currentProjectorIndex
                /\ toProjector' = notifyProjectorWindow(events)
                /\ toMain' = notifyMainWindow(events)
                /\ result' = [success |-> TRUE, isPlaying |-> nowPlaying]
    /\ UNCHANGED <<mainWindow, projectorWindow, projectorFiles,
                   projectorFilesOrder, projectorSettings>>

\* ipcMain.handle('notify-projector-index-change')
NotifyProjectorIndexChange(index) ==
    /\ UNCHANGED <<scan, renderers>>
    /\ cmd' = Command("notifyIndexChange", "none", index, NullSettings)
    /\ announced' = NoHistory
    /\ result' = [success |-> TRUE]
    /\ toProjector' = <<>>
    /\ LET orderIndex == IndexOf(projectorFilesOrder, index) IN
       IF index < 0
       THEN /\ isShowingBackground' = TRUE
            /\ toMain' = notifyMainWindow(<<Nav(-1)>>)
            /\ UNCHANGED currentProjectorIndex
       ELSE IF orderIndex >= 0
       THEN /\ currentProjectorIndex' = orderIndex
            /\ isShowingBackground' = FALSE
            /\ toMain' = notifyMainWindow(<<Nav(index)>>)
       ELSE /\ toMain' = <<>>
            /\ UNCHANGED <<currentProjectorIndex, isShowingBackground>>
    /\ UNCHANGED <<mainWindow, projectorWindow, projectorFiles,
                   projectorFilesOrder, projectorSettings, isProjectorPlaying>>

\* ipcMain.handle('update-projector-settings')
UpdateProjectorSettings(settings) ==
    /\ UNCHANGED <<scan, renderers>>
    /\ cmd' = Command("updateSettings", "none", 0, settings)
    /\ announced' = NoHistory
    /\ IF ~isProjectorWindowValid
       THEN /\ result' = [success |-> FALSE]
            /\ toProjector' = <<>>
            /\ UNCHANGED <<projectorSettings, projectorFilesOrder>>
       ELSE LET v == ValidatedSettings(settings) IN
            /\ projectorSettings' = v
            /\ projectorFilesOrder' \in OrdersFor(Len(projectorFiles), v.random)
            /\ toProjector' = notifyProjectorWindow(<<SettingsEv(v)>>)
            /\ result' = [success |-> TRUE]
    /\ toMain' = <<>>
    /\ UNCHANGED <<mainWindow, projectorWindow, projectorFiles,
                   currentProjectorIndex, isProjectorPlaying,
                   isShowingBackground>>

\* if (projectorSettings && !projectorSettings.loop) projectorSettings.random = false
FilesSettings(settings) ==
    IF LoopDisabled(settings) THEN [settings EXCEPT !.random = FALSE]
    ELSE settings

\* No clamp after the list shrinks
ClampIndexMissing(cursor, len) == cursor

\* A cursor beyond the new list goes back to the first position
ClampIndexToFirst(cursor, len) == IF cursor >= len THEN 0 ELSE cursor

\* if (currentProjectorIndex >= order.length) currentProjectorIndex = Math.max(0, order.length - 1)
ClampIndex(cursor, len) ==
    IF cursor >= len THEN (IF len - 1 > 0 THEN len - 1 ELSE 0) ELSE cursor

\* ipcMain.handle('update-projector-files')
UpdateProjectorFiles(files) ==
    /\ UNCHANGED <<scan, renderers>>
    /\ cmd' = Command("updateFiles", "none", 0, NullSettings)
    /\ announced' = NoHistory
    /\ IF ~isProjectorWindowValid
       THEN /\ result' = [success |-> FALSE]
            /\ toProjector' = <<>>
            /\ toMain' = <<>>
            /\ UNCHANGED session
       ELSE LET s == FilesSettings(projectorSettings) IN
            \E order \in OrdersFor(Len(files), RandomLoop(s)) :
              LET c == ClampIndex(currentProjectorIndex, Len(order)) IN
              /\ projectorFiles' = files
              /\ projectorSettings' = s
              /\ projectorFilesOrder' = order
              /\ currentProjectorIndex' = c
              /\ IF Len(order) > 0 /\ c >= 0
                 THEN LET r == navigateToIndex(At(order, c)) IN
                      /\ isShowingBackground' = r.background
                      /\ toProjector' = notifyProjectorWindow(
                                            <<FilesUpdated(files)>> \o r.events)
                      /\ toMain' = notifyMainWindow(r.events)
                 ELSE /\ isShowingBackground' = TRUE
                      /\ toProjector' = notifyProjectorWindow(
                                            <<FilesUpdated(files), Nav(-1)>>)
                      /\ toMain' = notifyMainWindow(<<Nav(-1)>>)
              /\ result' = [success |-> TRUE]
              /\ UNCHANGED isProjectorPlaying
    /\ UNCHANGED <<mainWindow, projectorWindow>>

\* ipcMain.handle('update-projector-volume')
UpdateProjectorVolume(volume) ==
    /\ UNCHANGED <<scan, renderers>>
    /\ cmd' = Command("volume", "none", volume, NullSettings)
    /\ announced' = NoHistory
    /\ result' = [success |-> isProjectorWindowValid]
    /\ toProjector' = notifyProjectorWindow(<<VolumeEv(volume)>>)
    /\ toMain' = <<>>
    /\ UNCHANGED <<mainWindow, projectorWindow, session>>

\* A seek that rebuilds the order the way update-projector-settings does
SeekProjectorVideoRebuildsOrder(time) ==
    /\ UNCHANGED <<scan, renderers>>
    /\ cmd' = Command("seek", "none", time, NullSettings)
    /\ announced' = NoHistory
    /\ result' = [success |-> isProjectorWindowValid]
    /\ toProjector' = notifyProjectorWindow(<<SeekEv(time)>>)
    /\ toMain' = <<>>
    /\ projectorFilesOrder' = IndexMap(Len(projectorFiles))
    /\ UNCHANGED <<mainWindow, projectorWindow, projectorFiles,
                   currentProjectorIndex, isProjectorPlaying,
                   projectorSettings, isShowingBackground>>

\* ipcMain.handle('seek-projector-video')
SeekProjectorVideo(time) ==
    /\ UNCHANGED <<scan, renderers>>
    /\ cmd' = Command("seek", "none", time, NullSettings)
    /\ announced' = NoHistory
    /\ result' = [success |-> isProjectorWindowValid]
    /\ toProjector' = notifyProjectorWindow(<<SeekEv(time)>>)
    /\ toMain' = <<>>
    /\ UNCHANGED <<mainWindow, projectorWindow, session>>

\* Progress forwarded to both windows, the projector that reported it included
SendVideoProgressToBoth(progress) ==
    /\ UNCHANGED <<scan, renderers>>
    /\ cmd' = Command("videoProgress", "none", progress, NullSettings)
    /\ announced' = NoHistory
    /\ result' = [success |-> TRUE]
    /\ toProjector' = notifyProjectorWindow(<<VideoProgressEv(progress)>>)
    /\ toMain' = notifyMainWindow(<<VideoProgressEv(progress)>>)
    /\ UNCHANGED <<mainWindow, projectorWindow, session>>

\* ipcMain.handle('send-video-progress'): no validity check, always success
SendVideoProgress(progress) ==
    /\ UNCHANGED <<scan, renderers>>
    /\ cmd' = Command("videoProgress", "none", progress, NullSettings)
    /\ announced' = NoHistory
    /\ result' = [success |-> TRUE]
    /\ toProjector' = <<>>
    /\ toMain' = notifyMainWindow(<<VideoProgressEv(progress)>>)
    /\ UNCHANGED <<mainWindow, projectorWindow, session>>

\* ipcMain.handle('send-timer-progress')
SendTimerProgress(progress) ==
    /\ UNCHANGED <<scan, renderers>>
    /\ cmd' = Command("timerProgress", "none", progress, NullSettings)
    /\ announced' = NoHistory
    /\ result' = [success |-> TRUE]
    /\ toProjector' = <<>>
    /\ toMain' = notifyMainWindow(<<TimerProgressEv(progress)>>)
    /\ UNCHANGED <<mainWindow, projectorWindow, session>>

\* The query answers with the order position, not the item at it
GetProjectorFilesIndexReturnsPosition ==
    IF Len(projectorFilesOrder) = 0 THEN -1 ELSE currentProjectorIndex

\* currentIndex of get-projector-files
GetProjectorFilesIndex ==
    LET len == Len(projectorFilesOrder)
        last == IF currentProjectorIndex < len - 1
                THEN currentProjectorIndex ELSE len - 1
    IN  IF len = 0 THEN -1
        ELSE IF currentProjectorIndex >= len /\ LoopDisabled(projectorSettings)
        THEN -1
        ELSE At(projectorFilesOrder, last)

\* ipcMain.handle('get-projector-files')
GetProjectorFiles ==
    /\ UNCHANGED <<scan, renderers>>
    /\ cmd' = Command("getFiles", "none", 0, NullSettings)
    /\ announced' = NoHistory
    /\ result' = [files |-> projectorFiles,
                  currentIndex |-> GetProjectorFilesIndex]
    /\ toProjector' = <<>>
    /\ toMain' = <<>>
    /\ UNCHANGED <<mainWindow, projectorWindow, session>>

\* ipcMain.handle('close-projector-window'): close() is only requested here,
\* the session is reset by the window's 'closed' handler
CloseProjectorWindow ==
    /\ UNCHANGED <<scan, renderers>>
    /\ cmd' = Command("close", "none", 0, NullSettings)
    /\ announced' = NoHistory
    /\ result' = [success |-> isProjectorWindowValid]
    /\ toProjector' = <<>>
    /\ toMain' = <<>>
    /\ UNCHANGED <<mainWindow, projectorWindow, session>>

\* A 'closed' handler that drops the window but leaves the cursor and the flags
ProjectorWindowClosedKeepsPosition ==
    /\ isProjectorWindowValid
    /\ UNCHANGED <<scan, renderers>>
    /\ cmd' = Command("closed", "none", 0, NullSettings)
    /\ announced' = NoHistory
    /\ toMain' = notifyMainWindow(<<ClosedEv>>)
    /\ toProjector' = <<>>
    /\ projectorWindow' = "null"
    /\ projectorFiles' = <<>>
    /\ projectorFilesOrder' = <<>>
    /\ projectorSettings' = NullSettings
    /\ UNCHANGED <<mainWindow, result, currentProjectorIndex,
                   isProjectorPlaying, isShowingBackground>>

\* projectorWindow.on('closed'): after close(), or the operator closing the window
ProjectorWindowClosed ==
    /\ isProjectorWindowValid
    /\ UNCHANGED <<scan, renderers>>
    /\ cmd' = Command("closed", "none", 0, NullSettings)
    /\ announced' = NoHistory
    /\ toMain' = notifyMainWindow(<<ClosedEv>>)
    /\ toProjector' = <<>>
    /\ projectorWindow' = "null"
    /\ projectorFiles' = <<>>
    /\ projectorFilesOrder' = <<>>
    /\ currentProjectorIndex' = 0
    /\ isProjectorPlaying' = FALSE
    /\ isShowingBackground' = FALSE
    /\ projectorSettings' = NullSettings
    /\ UNCHANGED <<mainWindow, result>>

\* projectorWindow.webContents.once('did-finish-load')
DidFinishLoad ==
    /\ projectorWindow = "loading"
    /\ projectorWindow' = "loaded"
    /\ UNCHANGED <<scan, renderers>>
    /\ cmd' = Command("didFinishLoad", "none", 0, NullSettings)
    /\ IF projectorSettings # NullSettings
       THEN LET initialIndex == IF Len(projectorFilesOrder) > 0
                                THEN projectorFilesOrder[1] ELSE 0
                pp == IF isProjectorPlaying THEN <<PlayPause(TRUE)>> ELSE <<>>
            IN  /\ toProjector' = <<SettingsEv(projectorSettings),
                                    Nav(initialIndex)>> \o pp
                /\ toMain' = notifyMainWindow(
                                 pp \o <<Opened, Nav(initialIndex)>>)
       ELSE /\ toProjector' = <<>>
            /\ toMain' = <<>>
    /\ UNCHANGED <<mainWindow, session, result, announced>>

\* closeApp(): the main window is destroyed on the way to app.quit()
MainWindowDestroyed ==
    /\ mainWindow
    /\ mainWindow' = FALSE
    /\ UNCHANGED <<scan, renderers>>
    /\ cmd' = Command("mainDestroyed", "none", 0, NullSettings)
    /\ toProjector' = <<>>
    /\ toMain' = <<>>
    /\ UNCHANGED <<projectorWindow, session, result, announced>>

\* app.on('activate'): createWindow() when no window is left
Activate ==
    /\ ~mainWindow
    /\ projectorWindow = "null"
    /\ mainWindow' = TRUE
    /\ UNCHANGED <<scan, renderers>>
    /\ cmd' = Command("activate", "none", 0, NullSettings)
    /\ toProjector' = <<>>
    /\ toMain' = <<>>
    /\ UNCHANGED <<projectorWindow, session, result, announced>>

Next ==
    \/ \E files \in FileLists, settings \in SettingsInputs :
          OpenProjectorWindow(files, settings)
    \/ \E direction \in Directions : NavigateProjector(direction)
    \/ \E targetIndex \in IndexInputs : NavigateProjectorToIndex(targetIndex)
    \/ ToggleProjectorPlayPause
    \/ \E index \in IndexInputs : NotifyProjectorIndexChange(index)
    \/ \E settings \in SettingsInputs : UpdateProjectorSettings(settings)
    \/ \E files \in FileLists : UpdateProjectorFiles(files)
    \/ \E volume \in PassThroughValues : UpdateProjectorVolume(volume)
    \/ \E time \in PassThroughValues : SeekProjectorVideo(time)
    \/ \E progress \in PassThroughValues : SendVideoProgress(progress)
    \/ \E progress \in PassThroughValues : SendTimerProgress(progress)
    \/ GetProjectorFiles
    \/ CloseProjectorWindow
    \/ ProjectorWindowClosed
    \/ DidFinishLoad
    \/ MainWindowDestroyed
    \/ Activate

Spec == Init /\ [][Next]_vars

\* ------------------------------------------------- the do-while, step by step
\* The repeat-avoidance scan of navigate-projector run one iteration per
\* step, over any order content (an order with repeated entries included).
ScanOrders(n) == [1..n -> 0..(n - 1)]

ScanInit ==
    /\ mainWindow = TRUE
    /\ projectorWindow = "loaded"
    /\ \E n \in 1..MaxFiles :
          /\ projectorFiles = FilesOfLen(n)
          /\ projectorFilesOrder \in ScanOrders(n)
          /\ currentProjectorIndex \in 0..(n - 1)
    /\ isProjectorPlaying = FALSE
    /\ projectorSettings = [loop |-> TRUE, random |-> TRUE,
                            enableTimeBetweenElements |-> FALSE]
    /\ isShowingBackground = FALSE
    /\ cmd = Command("none", "none", 0, NullSettings)
    /\ result = [success |-> TRUE]
    /\ toProjector = <<>>
    /\ toMain = <<>>
    /\ announced = NoHistory
    /\ scan = NoScan
    /\ app = AppInitial
    /\ view = ViewInitial
    /\ wire = WireInitial

\* One position further in the direction of the advance, wrapping
ScanAdvance(cur, direction, len) ==
    IF direction = "next" THEN (cur + 1) % len ELSE (cur - 1 + len) % len

\* The scan never gives up at its starting position
ScanBreakNever(cur, startIndex) == FALSE

\* if (currentProjectorIndex === startIndex) break
ScanBreak(cur, startIndex) == cur = startIndex

\* The advance up to the do-while: the wrapped candidate is taken, and the
\* scan is entered if it holds the item being left
ScanEnter(direction) ==
    /\ scan.pc = "idle"
    /\ LET len == Len(projectorFilesOrder)
           currentFileIndex == At(projectorFilesOrder, currentProjectorIndex)
           c == IF direction = "next"
                THEN (currentProjectorIndex + 1) % len
                ELSE IF currentProjectorIndex - 1 < 0 THEN len - 1
                     ELSE currentProjectorIndex - 1
           wrapped == direction = "next" \/ currentProjectorIndex - 1 < 0
           enters == /\ wrapped
                     /\ RandomLoop(projectorSettings)
                     /\ len > 1
                     /\ At(projectorFilesOrder, c) = currentFileIndex
       IN  /\ currentProjectorIndex' = c
           /\ scan' = [pc |-> IF enters THEN "loop" ELSE "done",
                       dir |-> direction,
                       from |-> currentProjectorIndex,
                       startIndex |-> c,
                       currentFileIndex |-> currentFileIndex,
                       foundDifferent |-> FALSE,
                       probes |-> 0]
    /\ UNCHANGED <<mainWindow, projectorWindow, projectorFiles,
                   projectorFilesOrder, isProjectorPlaying, projectorSettings,
                   isShowingBackground, cmd, result, toProjector, toMain,
                   announced, renderers>>

\* One iteration of the do-while body and its while test
ScanStep ==
    /\ scan.pc = "loop"
    /\ scan.probes <= Len(projectorFilesOrder)
    /\ LET c == ScanAdvance(currentProjectorIndex, scan.dir,
                            Len(projectorFilesOrder))
           differs == At(projectorFilesOrder, c) # scan.currentFileIndex
           found == scan.foundDifferent \/ differs
       IN  /\ currentProjectorIndex' = c
           /\ scan' = [scan EXCEPT
                         !.foundDifferent = found,
                         !.probes = @ + 1,
                         !.pc = IF ScanBreak(c, scan.startIndex) THEN "done"
                                ELSE IF ~found /\ ~differs THEN "loop"
                                ELSE "done"]
    /\ UNCHANGED <<mainWindow, projectorWindow, projectorFiles,
                   projectorFilesOrder, isProjectorPlaying, projectorSettings,
                   isShowingBackground, cmd, result, toProjector, toMain,
                   announced, renderers>>

ScanNext ==
    \/ \E direction \in Directions : ScanEnter(direction)
    \/ ScanStep

\* The handler runs to completion: an iteration that can run does run
ScanSpec == ScanInit /\ [][ScanNext]_vars /\ WF_vars(ScanNext)

\* ------------------------------------------------- the control surface
\* App.tsx: the listeners for the coordinator's events and the handlers of
\* the progress slider, each a function of the component's state.  Times
\* are in tenths of a second, the slider's step.
TimeValues == 0..MaxTime

\* timeDiff < 0.5, in tenths of a second
SeekTolerance == 5

Abs(x) == IF x < 0 THEN -x ELSE x

\* Progress taken over whatever the operator is dragging
handleVideoProgressWhileDragging(a, currentTime) ==
    [a EXCEPT !.videoProgress = currentTime, !.timerProgress = Null,
              !.isDraggingProgress = FALSE, !.draggedProgressValue = Null]

\* handleVideoProgress(progress)
handleVideoProgress(a, currentTime) ==
    IF ~a.isDraggingProgress
    THEN [a EXCEPT !.videoProgress = currentTime, !.timerProgress = Null]
    ELSE IF /\ a.draggedProgressValue # Null
            /\ Abs(currentTime - a.draggedProgressValue) < SeekTolerance
    THEN [a EXCEPT !.isDraggingProgress = FALSE,
                   !.videoProgress = currentTime,
                   !.timerProgress = Null,
                   !.draggedProgressValue = Null]
    ELSE a

\* handleTimerProgress(progress)
handleTimerProgress(a, elapsed) ==
    [a EXCEPT !.timerProgress = elapsed, !.videoProgress = Null]

\* handleProjectorNavigate(index): the type is looked up in the control
\* surface's own file list
handleProjectorNavigate(a, index) ==
    [a EXCEPT !.currentProjectorIndex = index,
              !.currentFileType =
                  IF index >= 0 /\ Len(a.files) > 0 /\ index < Len(a.files)
                  THEN FileType(a.files[index + 1])
                  ELSE "null",
              !.videoProgress = Null,
              !.timerProgress = Null]

\* handleProjectorClosed()
handleProjectorClosed(a) ==
    [a EXCEPT !.isProjectorOpen = FALSE,
              !.currentProjectorIndex = Null,
              !.isPlaying = FALSE,
              !.videoProgress = Null,
              !.timerProgress = Null,
              !.isDraggingProgress = FALSE,
              !.draggedProgressValue = Null]

\* handleProjectorOpened()
handleProjectorOpened(a) == [a EXCEPT !.isProjectorOpen = TRUE]

\* handlePlayPause(isPlaying)
handlePlayPause(a, playing) == [a EXCEPT !.isPlaying = playing]

\* The slider is rendered with a progress to show and disabled without a projector
SliderEnabled(a) ==
    /\ a.videoProgress # Null \/ a.timerProgress # Null
    /\ a.isProjectorOpen

\* videoProgress && isProjectorOpen && currentFileType === "video"
CanSeek(a) ==
    /\ a.videoProgress # Null
    /\ a.isProjectorOpen
    /\ a.currentFileType = "video"

\* The slider's onMouseDown
onMouseDown(a) ==
    [a EXCEPT !.mouseDown = TRUE,
              !.isDraggingProgress = IF CanSeek(a) THEN TRUE ELSE @]

\* The slider's onChange: a pointer move, a click on the track or an arrow key
onChange(a, value) ==
    IF CanSeek(a)
    THEN [a EXCEPT !.isDraggingProgress = TRUE,
                   !.draggedProgressValue = value,
                   !.seekRequested = value]
    ELSE a

\* The slider's onMouseUp and the window's handleGlobalMouseUp have the same
\* body; n of them run on a release
onMouseUp(a, n) ==
    IF a.isDraggingProgress
    THEN [a EXCEPT !.mouseDown = FALSE,
                   !.seekRequested =
                       IF a.draggedProgressValue # Null /\ CanSeek(a)
                       THEN a.draggedProgressValue ELSE @,
                   !.fallbackTimeouts = @ + n]
    ELSE [a EXCEPT !.mouseDown = FALSE]

\* The callback of setTimeout(..., 500)
fallbackTimeout(a) ==
    IF a.isDraggingProgress
    THEN [a EXCEPT !.fallbackTimeouts = @ - 1,
                   !.isDraggingProgress = FALSE,
                   !.draggedProgressValue = Null]
    ELSE [a EXCEPT !.fallbackTimeouts = @ - 1]

\* The state a handler leaves, with the event it handled on record
Handled(a, ch, value) == [a EXCEPT !.last = [ch |-> ch, value |-> value]]

coordinator == <<mainWindow, projectorWindow, session, cmd, result,
                 toProjector, toMain, announced, scan>>

\* The control surface of an open projector, whatever the coordinator sends
SeekInit ==
    /\ mainWindow = TRUE
    /\ projectorWindow = "null"
    /\ projectorFiles = <<>>
    /\ projectorFilesOrder = <<>>
    /\ currentProjectorIndex = 0
    /\ isProjectorPlaying = FALSE
    /\ projectorSettings = NullSettings
    /\ isShowingBackground = FALSE
    /\ cmd = Command("none", "none", 0, NullSettings)
    /\ result = [success |-> TRUE]
    /\ toProjector = <<>>
    /\ toMain = <<>>
    /\ announced = NoHistory
    /\ scan = NoScan
    /\ app = [AppInitial EXCEPT !.files = FilesOfLen(MaxFiles)]
    /\ view = ViewInitial
    /\ wire = WireInitial

SeekVideoProgress(currentTime) ==
    /\ app' = Handled(handleVideoProgress(app, currentTime),
                    "projector-video-progress", currentTime)
    /\ UNCHANGED <<coordinator, view, wire>>

SeekTimerProgress(elapsed) ==
    /\ app' = Handled(handleTimerProgress(app, elapsed),
                    "projector-timer-progress", elapsed)
    /\ UNCHANGED <<coordinator, view, wire>>

SeekNavigate(index) ==
    /\ app' = Handled(handleProjectorNavigate(app, index),
                    "projector-navigate", index)
    /\ UNCHANGED <<coordinator, view, wire>>

SeekProjectorClosed ==
    /\ app' = Handled(handleProjectorClosed(app), "projector-closed", 0)
    /\ UNCHANGED <<coordinator, view, wire>>

SeekProjectorOpened ==
    /\ app' = Handled(handleProjectorOpened(app), "projector-opened", 0)
    /\ UNCHANGED <<coordinator, view, wire>>

SliderMouseDown ==
    /\ SliderEnabled(app)
    /\ ~app.mouseDown
    /\ app.fallbackTimeouts + 2 <= MaxTimeouts
    /\ app' = Handled(onMouseDown(app), "mousedown", 0)
    /\ UNCHANGED <<coordinator, view, wire>>

SliderChange(value) ==
    /\ SliderEnabled(app)
    /\ app' = Handled(onChange(app, value), "change", value)
    /\ UNCHANGED <<coordinator, view, wire>>

\* Released over the slider both handlers run (the window's only if it is
\* registered, that is while dragging); released elsewhere the window's alone
MouseUp ==
    /\ app.mouseDown
    /\ \E n \in 1..2 : app' = Handled(onMouseUp(app, n), "mouseup", n)
    /\ UNCHANGED <<coordinator, view, wire>>

FallbackTimeout ==
    /\ app.fallbackTimeouts > 0
    /\ app' = Handled(fallbackTimeout(app), "timeout", 0)
    /\ UNCHANGED <<coordinator, view, wire>>

SeekNext ==
    \/ \E currentTime \in TimeValues : SeekVideoProgress(currentTime)
    \/ \E elapsed \in PassThroughValues : SeekTimerProgress(elapsed)
    \/ \E index \in (-1)..(MaxFiles - 1) : SeekNavigate(index)
    \/ SeekProjectorClosed
    \/ SeekProjectorOpened
    \/ SliderMouseDown
    \/ \E value \in TimeValues : SliderChange(value)
    \/ MouseUp
    \/ FallbackTimeout

SeekSpec == SeekInit /\ [][SeekNext]_vars

\* A timeout that is armed fires, and a mouse button held down is released
SeekLive ==
    SeekInit /\ [][SeekNext]_vars /\ WF_vars(FallbackTimeout) /\ WF_vars(MouseUp)

\* ------------------------------------------------- the display surface
\* ProjectorView.tsx: the listeners for the coordinator's events, the
\* callbacks of its intervals, and the effects React runs after a render
\* for every dependency array that changed.
ValidIndex(v) ==
    /\ Len(v.files) > 0
    /\ v.currentIndex >= 0
    /\ v.currentIndex < Len(v.files)

\* files[currentIndex].type
CurrentType(v) ==
    IF ValidIndex(v) THEN FileType(v.files[v.currentIndex + 1]) ELSE "null"

\* The dependency array of the auto-start effect
AutoStartDeps(v) ==
    <<Len(v.files), v.settings.enableTimeBetweenElements,
      v.settings.autoPlayVideos, v.currentIndex>>

\* The auto-start effect: once, the first time files are there
AutoStart(old, new, first) ==
    IF /\ first \/ AutoStartDeps(old) # AutoStartDeps(new)
       /\ ~new.hasAutoStarted
       /\ Len(new.files) > 0
       /\ new.currentIndex >= 0
       /\ \/ new.settings.enableTimeBetweenElements
          \/ new.settings.autoPlayVideos
       /\ ~new.isPlaying
    THEN [new EXCEPT !.hasAutoStarted = TRUE, !.isPlaying = TRUE]
    ELSE new

\* The auto-play effect rerun for a new playing state or list only
TimerDepsWithoutIndex(v) ==
    <<v.isPlaying, 0, v.settings.enableTimeBetweenElements,
      Len(v.files), v.settings.loop>>

\* The dependency array of the auto-play timer effect, advanceToNext's own
\* dependencies included; the identity of files is tracked by the caller
TimerDeps(v) ==
    <<v.isPlaying, v.currentIndex, v.settings.enableTimeBetweenElements,
      Len(v.files), v.settings.loop>>

\* The dependency array of the two progress effects
ProgressDeps(v) ==
    <<v.isPlaying, v.currentIndex, v.settings.enableTimeBetweenElements>>

\* isPlaying && enableTimeBetweenElements && valid index && type !== "video"
TimerCondition(v) ==
    /\ v.isPlaying
    /\ v.settings.enableTimeBetweenElements
    /\ ValidIndex(v)
    /\ CurrentType(v) # "video"

\* An interval, known by the render that created it
Interval(v) == [index |-> v.currentIndex, files |-> v.files]

\* The effects after a render that took the state from old to new;
\* filesSet: setFiles was called, first: the render is the mount
Render(old, new, filesSet, first) ==
    LET s1 == AutoStart(old, new, first)
        timerRerun == first \/ filesSet \/ TimerDeps(old) # TimerDeps(s1)
        progressRerun == first \/ filesSet
                             \/ ProgressDeps(old) # ProgressDeps(s1)
        echo == /\ first \/ old.currentIndex # s1.currentIndex
                /\ s1.isAutoPlayChange
    IN  [s1 EXCEPT
           !.playInterval =
               IF timerRerun
               THEN (IF TimerCondition(s1) THEN <<Interval(s1)>> ELSE <<>>)
               ELSE @,
           !.timerProgressInterval =
               IF progressRerun
               THEN (IF TimerCondition(s1) THEN <<Interval(s1)>> ELSE <<>>)
               ELSE @,
           !.videoProgressInterval =
               IF progressRerun
               THEN (IF CurrentType(s1) = "video"
                     THEN <<Interval(s1)>> ELSE <<>>)
               ELSE @,
           !.isAutoPlayChange = IF echo THEN FALSE ELSE @]

\* What the echo effect of that render sends: notifyProjectorIndexChange
Echo(old, new, first) ==
    LET s1 == AutoStart(old, new, first) IN
    IF /\ first \/ old.currentIndex # s1.currentIndex
       /\ s1.isAutoPlayChange
    THEN <<Request("view", "notifyIndexChange", "none", s1.currentIndex)>>
    ELSE <<>>

\* handleNavigate(index)
handleNavigate(v, index) ==
    [v EXCEPT !.currentIndex = index,
              !.isPlaying = IF index = -1 THEN FALSE ELSE @]

\* handlePlayPause(playing) of the display surface
projectorHandlePlayPause(v, playing) == [v EXCEPT !.isPlaying = playing]

\* handleSettings(newSettings): { ...defaultSettings, ...newSettings }
handleSettings(v, newSettings) == [v EXCEPT !.settings = newSettings]

\* handleFilesUpdated(updatedFiles) up to its await
handleFilesUpdated(v, updatedFiles) ==
    [v EXCEPT !.files = updatedFiles, !.reloading = @ + 1]

\* handleFilesUpdated after its await: setCurrentIndex(filesResult.currentIndex)
filesReloaded(v, index) ==
    [v EXCEPT !.currentIndex = index, !.reloading = @ - 1]

\* loadData() after its await: files, index and settings set in one render
loadData(v, files, index, settings) ==
    [v EXCEPT !.files = files, !.currentIndex = index,
              !.settings = settings, !.loading = FALSE]

\* advanceToNext(): the flag for the echo effect; navigateProjector("next")
\* is sent by the caller
advanceToNext(v) == [v EXCEPT !.isAutoPlayChange = TRUE]

\* The display surface alone, whatever the coordinator sends and answers
ViewInit ==
    /\ mainWindow = TRUE
    /\ projectorWindow = "null"
    /\ projectorFiles = <<>>
    /\ projectorFilesOrder = <<>>
    /\ currentProjectorIndex = 0
    /\ isProjectorPlaying = FALSE
    /\ projectorSettings = NullSettings
    /\ isShowingBackground = FALSE
    /\ cmd = Command("none", "none", 0, NullSettings)
    /\ result = [success |-> TRUE]
    /\ toProjector = <<>>
    /\ toMain = <<>>
    /\ announced = NoHistory
    /\ scan = NoScan
    /\ app = AppInitial
    /\ view = Render(ViewInitial,
                     [ViewInitial EXCEPT !.mounted = TRUE, !.loading = TRUE],
                     FALSE, TRUE)
    /\ wire = WireInitial

\* The requests of the display surface still on their way
ViewInFlight ==
    Len(SelectSeq(wire.toCoordinator, LAMBDA r : r.from = "view"))

\* The state after a handler and the render it causes, with what the
\* handler and the echo effect sent
ViewStepOn(w, new, filesSet, sent) ==
    /\ view' = Render(view, new, filesSet, FALSE)
    /\ wire' = [w EXCEPT !.toCoordinator =
                    @ \o sent \o Echo(view, new, FALSE)]

ViewStep(new, filesSet, sent) == ViewStepOn(wire, new, filesSet, sent)

ViewLoaded(files, index, settings) ==
    /\ view.loading
    /\ ViewStep(loadData(view, files, index, settings), TRUE, <<>>)
    /\ UNCHANGED <<coordinator, app>>

ViewNavigate(index) ==
    /\ ViewStep(handleNavigate(view, index), FALSE, <<>>)
    /\ UNCHANGED <<coordinator, app>>

ViewPlayPause(playing) ==
    /\ ViewStep(projectorHandlePlayPause(view, playing), FALSE, <<>>)
    /\ UNCHANGED <<coordinator, app>>

ViewSettings(settings) ==
    /\ ViewStep(handleSettings(view, settings), FALSE, <<>>)
    /\ UNCHANGED <<coordinator, app>>

ViewFilesUpdated(files) ==
    /\ ViewInFlight < MaxInFlight
    /\ view.reloading < MaxInFlight
    /\ ViewStep(handleFilesUpdated(view, files), TRUE,
                <<Request("view", "getFiles", "none", 0)>>)
    /\ UNCHANGED <<coordinator, app>>

ViewFilesReloaded(index) ==
    /\ view.reloading > 0
    /\ ViewStep(filesReloaded(view, index), FALSE, <<>>)
    /\ UNCHANGED <<coordinator, app>>

\* The callback of the auto-play setInterval
ViewTimerFires ==
    /\ view.playInterval # <<>>
    /\ ViewInFlight < MaxInFlight
    /\ ViewStep(advanceToNext(view), FALSE,
                <<Request("view", "navigate", "next", 0)>>)
    /\ UNCHANGED <<coordinator, app>>

\* The video's 'ended' listener, registered while a video plays
ViewVideoEnded ==
    /\ CurrentType(view) = "video"
    /\ view.isPlaying
    /\ ViewInFlight < MaxInFlight
    /\ ViewStep(advanceToNext(view), FALSE,
                <<Request("view", "navigate", "next", 0)>>)
    /\ UNCHANGED <<coordinator, app>>

\* handleClick: left button next, right button previous
ViewClick(direction) ==
    /\ ViewInFlight < MaxInFlight
    /\ ViewStep(view, FALSE, <<Request("view", "navigate", direction, 0)>>)
    /\ UNCHANGED <<coordinator, app>>

\* sendProgress of the timer-progress interval
ViewTimerProgressTick(elapsed) ==
    /\ view.timerProgressInterval # <<>>
    /\ ViewInFlight < MaxInFlight
    /\ ViewStep(view, FALSE,
                <<Request("view", "timerProgress", "none", elapsed)>>)
    /\ UNCHANGED <<coordinator, app>>

\* sendProgress of the video-progress interval
ViewVideoProgressTick(currentTime) ==
    /\ view.videoProgressInterval # <<>>
    /\ ViewInFlight < MaxInFlight
    /\ ViewStep(view, FALSE,
                <<Request("view", "videoProgress", "none", currentTime)>>)
    /\ UNCHANGED <<coordinator, app>>

\* The coordinator takes the oldest request
ViewRequestTaken ==
    /\ wire.toCoordinator # <<>>
    /\ wire' = [wire EXCEPT !.toCoordinator = Tail(@)]
    /\ UNCHANGED <<coordinator, app, view>>

ViewNext ==
    \/ \E files \in FileLists, index \in (-1)..(MaxFiles - 1),
          settings \in ViewSettingsInputs : ViewLoaded(files, index, settings)
    \/ \E index \in (-1)..(MaxFiles - 1) : ViewNavigate(index)
    \/ \E playing \in BOOLEAN : ViewPlayPause(playing)
    \/ \E settings \in ViewSettingsInputs : ViewSettings(settings)
    \/ \E files \in FileLists : ViewFilesUpdated(files)
    \/ \E index \in (-1)..(MaxFiles - 1) : ViewFilesReloaded(index)
    \/ ViewTimerFires
    \/ ViewVideoEnded
    \/ \E direction \in Directions : ViewClick(direction)
    \/ \E elapsed \in PassThroughValues : ViewTimerProgressTick(elapsed)
    \/ \E currentTime \in PassThroughValues : ViewVideoProgressTick(currentTime)
    \/ ViewRequestTaken

ViewSpec == ViewInit /\ [][ViewNext]_vars

\* ------------------------------------------------- the three processes
\* The coordinator, the control surface and the display surface together.
\* An invoke waits in wire.toCoordinator; the coordinator runs its handler
\* in one step and hands the events the handler sent, and the value it
\* returned, to the channels in the next, before anything else happens.
Idle == cmd.op = "none"

\* The control surface's listeners run as soon as their message is there:
\* its renderer has nothing else to do, the others move once it has caught up
Prompt ==
    /\ Idle
    /\ wire.toApp = <<>>

\* The coordinator answers an invoke before the display surface or the
\* operator moves again: the display surface is the slow one of the three
Answered ==
    /\ Prompt
    /\ wire.toCoordinator = <<>>

\* A timer of the display surface or the operator acts once a new window
\* has finished loading and mounted its page, and can run ahead of the
\* display surface's listeners by fewer than MaxPending messages
Ahead ==
    /\ Answered
    /\ projectorWindow # "loading"
    /\ projectorWindow # "null" => view.mounted
    /\ Len(wire.toView) < MaxPending

Incoming == Head(wire.toCoordinator)

Accepting(op) ==
    /\ Prompt
    /\ wire.toCoordinator # <<>>
    /\ Incoming.op = op

\* The operator has chosen files and settings; no projector yet
SysInit ==
    /\ mainWindow = TRUE
    /\ projectorWindow = "null"
    /\ projectorFiles = <<>>
    /\ projectorFilesOrder = <<>>
    /\ currentProjectorIndex = 0
    /\ isProjectorPlaying = FALSE
    /\ projectorSettings = NullSettings
    /\ isShowingBackground = FALSE
    /\ cmd = Command("none", "none", 0, NullSettings)
    /\ result = [success |-> TRUE]
    /\ toProjector = <<>>
    /\ toMain = <<>>
    /\ announced = NoHistory
    /\ scan = NoScan
    /\ \E files \in FileLists, settings \in SettingsInputs,
          autoPlayVideos \in BOOLEAN :
          app = [AppInitial EXCEPT !.files = files,
                                   !.settings = settings,
                                   !.autoPlayVideos = autoPlayVideos]
    /\ view = ViewInitial
    /\ wire = WireInitial

SysOpenProjectorWindow ==
    /\ Accepting("open")
    /\ OpenProjectorWindow(Incoming.files, Incoming.settings)

SysNavigateProjector ==
    /\ Accepting("navigate")
    /\ NavigateProjector(Incoming.dir)

SysNavigateProjectorToIndex ==
    /\ Accepting("jumpTo")
    /\ NavigateProjectorToIndex(Incoming.index)

SysToggleProjectorPlayPause ==
    /\ Accepting("togglePlayPause")
    /\ ToggleProjectorPlayPause

SysNotifyProjectorIndexChange ==
    /\ Accepting("notifyIndexChange")
    /\ NotifyProjectorIndexChange(Incoming.index)

SysUpdateProjectorSettings ==
    /\ Accepting("updateSettings")
    /\ UpdateProjectorSettings(Incoming.settings)

SysUpdateProjectorFiles ==
    /\ Accepting("updateFiles")
    /\ UpdateProjectorFiles(Incoming.files)

SysUpdateProjectorVolume ==
    /\ Accepting("volume")
    /\ UpdateProjectorVolume(Incoming.index)

\* get-projector-files, asked for by handleFilesUpdated or by loadData
SysGetProjectorFiles ==
    /\ Accepting("getFiles") \/ Accepting("loadData")
    /\ GetProjectorFiles

SysCloseProjectorWindow ==
    /\ Accepting("close")
    /\ CloseProjectorWindow

\* 'closed' after projectorWindow.close()
SysProjectorWindowClosed ==
    /\ Prompt
    /\ wire.closing
    /\ ProjectorWindowClosed

SysDidFinishLoad ==
    /\ Prompt
    /\ DidFinishLoad

\* webContents.send and the resolution of the invoke: what the handler
\* sent goes to the two windows in order, its return value behind it; a
\* closed window takes its renderer and its messages with it
SysDispatch ==
    /\ ~Idle
    /\ LET closed == cmd.op = "closed"
           fromRequest == cmd.op \notin {"closed", "didFinishLoad"}
           r == IF fromRequest THEN Incoming
                ELSE Request("none", "none", "none", 0)
           viewReply ==
               IF r.from = "view" /\ r.op \in {"getFiles", "loadData"}
               THEN <<Reply(r.op, result.currentIndex, FALSE,
                            projectorSettings, result.files)>>
               ELSE <<>>
           appReply ==
               IF r.from = "app" /\ r.op \in {"open", "close"}
               THEN <<Reply(r.op, 0, result.success, NullSettings, <<>>)>>
               ELSE IF r.from = "app" /\ r.op = "togglePlayPause"
               THEN (IF result.success
                     THEN <<Reply(r.op, 1, result.isPlaying,
                                  NullSettings, <<>>)>>
                     ELSE <<Reply(r.op, 0, FALSE, NullSettings, <<>>)>>)
               ELSE <<>>
           navs == SelectSeq(toProjector,
                             LAMBDA e : e.ch = "projector-navigate")
           announcements ==
               SelectSeq(toProjector \o toMain,
                         LAMBDA e : e.ch = "projector-navigate")
       IN  /\ wire' = [wire EXCEPT
                 !.toCoordinator =
                     IF closed
                     THEN SelectSeq(@, LAMBDA q : q.from # "view")
                     ELSE IF fromRequest THEN Tail(@) ELSE @,
                 !.toView = IF closed THEN <<>>
                            ELSE @ \o toProjector \o viewReply,
                 !.toApp = @ \o toMain \o appReply,
                 !.loaded = IF closed THEN NoSnapshot ELSE @,
                 !.closing = IF closed THEN FALSE
                             ELSE IF cmd.op = "close" THEN result.success
                             ELSE @,
                 !.lastNavigate =
                     IF closed THEN Null
                     ELSE IF navs # <<>> THEN navs[Len(navs)].index
                     ELSE @,
                 !.lastAnnounced =
                     IF closed THEN Null
                     ELSE IF announcements # <<>>
                     THEN announcements[Len(announcements)].index
                     ELSE @]
           /\ view' = IF closed THEN ViewInitial ELSE view
    /\ cmd' = Command("none", "none", 0, NullSettings)
    /\ result' = [success |-> TRUE]
    /\ announced' = NoHistory
    /\ toProjector' = <<>>
    /\ toMain' = <<>>
    /\ UNCHANGED <<mainWindow, projectorWindow, session, scan, app>>

\* The page of a new projector window mounts ProjectorView: the listeners
\* are registered and loadData() is on its way
SysViewMount ==
    /\ Answered
    /\ projectorWindow # "null"
    /\ ~view.mounted
    /\ view' = Render(ViewInitial,
                      [ViewInitial EXCEPT !.mounted = TRUE, !.loading = TRUE],
                      FALSE, TRUE)
    /\ wire' = [wire EXCEPT !.toCoordinator =
                    Append(@, Request("view", "loadData", "none", 0))]
    /\ UNCHANGED <<coordinator, app>>

\* { ...defaultSettings, ...settings }: autoPlayVideos travels with the
\* control surface's settings, unread by the coordinator
MergedSettings(settings) ==
    IF settings = NullSettings THEN defaultSettings
    ELSE [enableTimeBetweenElements |-> settings.enableTimeBetweenElements,
          autoPlayVideos |-> app.autoPlayVideos,
          loop |-> settings.loop]

\* The display surface takes the oldest message of its channel
SysViewReceive ==
    /\ Answered
    /\ wire.toView # <<>>
    /\ LET e == Head(wire.toView)
           rest == [wire EXCEPT !.toView = Tail(@)]
       IN  IF ~view.mounted
           THEN /\ wire' = rest
                /\ view' = view
           ELSE IF e.ch = "projector-navigate"
           THEN ViewStepOn(rest, handleNavigate(view, e.index), FALSE, <<>>)
           ELSE IF e.ch = "projector-play-pause"
           THEN ViewStepOn(rest, projectorHandlePlayPause(view, e.flag),
                           FALSE, <<>>)
           ELSE IF e.ch = "projector-settings"
           THEN ViewStepOn(rest,
                           handleSettings(view, MergedSettings(e.settings)),
                           FALSE, <<>>)
           ELSE IF e.ch = "projector-files-updated"
           THEN ViewStepOn(rest, handleFilesUpdated(view, e.files), TRUE,
                           <<Request("view", "getFiles", "none", 0)>>)
           ELSE IF e.ch = "getFiles"
           THEN ViewStepOn(rest, filesReloaded(view, e.index), FALSE, <<>>)
           ELSE IF e.ch = "loadData"
           THEN /\ wire' = [rest EXCEPT !.loaded = e]
                /\ view' = view
           ELSE /\ wire' = rest
                /\ view' = view
    /\ UNCHANGED <<coordinator, app>>

\* The last answer of loadData's Promise.all (load-settings, read from
\* disk) is in: the snapshot taken by get-projector-files is applied
SysViewLoaded ==
    /\ Answered
    /\ view.loading
    /\ wire.loaded.ch = "loadData"
    /\ ViewStepOn([wire EXCEPT !.loaded = NoSnapshot],
                  loadData(view, wire.loaded.files, wire.loaded.index,
                           MergedSettings(wire.loaded.settings)),
                  TRUE, <<>>)
    /\ UNCHANGED <<coordinator, app>>

SysViewTimerFires ==
    /\ Ahead
    /\ ViewTimerFires

SysViewVideoEnded ==
    /\ Ahead
    /\ ViewVideoEnded

\* handleClick on the projector window, one of the operator's commands
SysViewClick(direction) ==
    /\ Ahead
    /\ view.mounted
    /\ wire.commands < MaxCommands
    /\ ViewInFlight < MaxInFlight
    /\ wire' = [wire EXCEPT
                    !.toCoordinator =
                        Append(@, Request("view", "navigate", direction, 0)),
                    !.commands = @ + 1]
    /\ UNCHANGED <<coordinator, app, view>>

\* The requests of the control surface still on their way
AppInFlight ==
    Len(SelectSeq(wire.toCoordinator, LAMBDA r : r.from = "app"))

\* The operator can give a command
Commanding ==
    /\ Ahead
    /\ wire.commands < MaxCommands
    /\ AppInFlight < MaxInFlight

\* The command goes out as invokes
AppSend(requests) ==
    wire' = [wire EXCEPT !.toCoordinator = @ \o requests,
                         !.commands = @ + 1]

\* The effect on [files, updateProjectorFiles]: sends the list when the
\* projector is open
updateProjectorFiles(a) ==
    IF a.isProjectorOpen
    THEN <<AppRequest("updateFiles", NullSettings, a.files)>>
    ELSE <<>>

\* handleOpenProjector up to its await: the Project button, shown while no
\* projector is open, or the tray's entry, which needs files only
AppOpenProjector ==
    /\ Commanding
    /\ ~app.isProjectorOpen \/ Len(app.files) > 0
    /\ AppSend(<<AppRequest("open", app.settings, app.files)>>)
    /\ UNCHANGED <<coordinator, app, view>>

\* handleCloseProjector up to its await
AppCloseProjector ==
    /\ Commanding
    /\ app.isProjectorOpen
    /\ AppSend(<<Request("app", "close", "none", 0)>>)
    /\ UNCHANGED <<coordinator, app, view>>

\* handleNavigate(direction): the buttons are disabled without files
AppNavigate(direction) ==
    /\ Commanding
    /\ Len(app.files) > 0
    /\ AppSend(<<Request("app", "navigate", direction, 0)>>)
    /\ UNCHANGED <<coordinator, app, view>>

\* handleTogglePlayPause up to its await
AppTogglePlayPause ==
    /\ Commanding
    /\ Len(app.files) > 0
    /\ AppSend(<<Request("app", "togglePlayPause", "none", 0)>>)
    /\ UNCHANGED <<coordinator, app, view>>

\* handleItemClick: only while the projector is open
AppItemClick(index) ==
    /\ Commanding
    /\ app.isProjectorOpen
    /\ index < Len(app.files)
    /\ AppSend(<<Request("app", "jumpTo", "none", index)>>)
    /\ UNCHANGED <<coordinator, app, view>>

\* handleSettingsChange(newSettings)
AppSettingsChange(settings) ==
    /\ Commanding
    /\ app' = [app EXCEPT !.settings = settings]
    /\ AppSend(<<AppRequest("updateSettings", settings, <<>>)>>)
    /\ UNCHANGED <<coordinator, view>>

\* setFiles(...) after an upload, a removal or a reordering, and the effect
\* that follows it
AppFilesChange(files) ==
    /\ Commanding
    /\ files # app.files
    /\ app' = [app EXCEPT !.files = files]
    /\ AppSend(updateProjectorFiles(app'))
    /\ UNCHANGED <<coordinator, view>>

\* The control surface takes the oldest message of its channel: an event
\* for one of its listeners, or the value one of its invokes resolved to
AppReceive ==
    /\ Idle
    /\ wire.toApp # <<>>
    /\ LET e == Head(wire.toApp)
           opens == IF app.isProjectorOpen THEN <<>>
                    ELSE <<AppRequest("updateFiles", NullSettings, app.files)>>
           new == IF e.ch = "projector-navigate"
                  THEN handleProjectorNavigate(app, e.index)
                  ELSE IF e.ch = "projector-play-pause"
                  THEN handlePlayPause(app, e.flag)
                  ELSE IF e.ch = "projector-opened"
                  THEN handleProjectorOpened(app)
                  ELSE IF e.ch = "projector-closed"
                  THEN handleProjectorClosed(app)
                  ELSE IF e.ch = "open"
                  THEN [app EXCEPT !.isProjectorOpen = TRUE]
                  ELSE IF e.ch = "close"
                  THEN [app EXCEPT !.isProjectorOpen = FALSE]
                  ELSE IF e.ch = "togglePlayPause" /\ e.index = 1
                  THEN [app EXCEPT !.isPlaying = e.flag]
                  ELSE app
           sent == IF e.ch = "projector-opened" THEN opens
                   ELSE IF e.ch = "open"
                   THEN opens \o <<Request("app", "volume", "none", 1)>>
                   ELSE <<>>
       IN  /\ app' = new
           /\ wire' = [wire EXCEPT !.toApp = Tail(@),
                                   !.toCoordinator = @ \o sent]
    /\ UNCHANGED <<coordinator, view>>

SysNext ==
    \/ SysOpenProjectorWindow
    \/ SysNavigateProjector
    \/ SysNavigateProjectorToIndex
    \/ SysToggleProjectorPlayPause
    \/ SysNotifyProjectorIndexChange
    \/ SysUpdateProjectorSettings
    \/ SysUpdateProjectorFiles
    \/ SysUpdateProjectorVolume
    \/ SysGetProjectorFiles
    \/ SysCloseProjectorWindow
    \/ SysProjectorWindowClosed
    \/ SysDidFinishLoad
    \/ SysDispatch
    \/ SysViewMount
    \/ SysViewReceive
    \/ SysViewLoaded
    \/ SysViewTimerFires
    \/ SysViewVideoEnded
    \/ \E direction \in Directions : SysViewClick(direction)
    \/ AppOpenProjector
    \/ AppCloseProjector
    \/ \E direction \in Directions : AppNavigate(direction)
    \/ AppTogglePlayPause
    \/ \E index \in 0..(MaxFiles - 1) : AppItemClick(index)
    \/ \E settings \in SettingsInputs : AppSettingsChange(settings)
    \/ \E files \in FileLists : AppFilesChange(files)
    \/ AppReceive

SysSpec == SysInit /\ [][SysNext]_vars

\* ------------------------------------------------------------- properties
IsPermutation(order, n) ==
    /\ Len(order) = n
    /\ \A i \in 0..(n - 1) :
          Cardinality({k \in 1..Len(order) : order[k] = i}) = 1
    /\ \A k \in 1..Len(order) : order[k] \in 0..(n - 1)

\* C1: after any sequence of commands the display order is a permutation of
\* [0..N), N the current number of items: length N and every index 0..N-1
\* exactly once, with shuffle on or off and for N = 0.
C1_OrderIsPermutation ==
    IsPermutation(projectorFilesOrder, Len(projectorFiles))

\* A shuffled, non-identity order over at least two items
C1_Witness ==
    /\ RandomLoop(projectorSettings)
    /\ Len(projectorFiles) >= 2
    /\ projectorFilesOrder # IndexMap(Len(projectorFiles))
    /\ cmd.op = "updateFiles"

\* C2: whenever settings are stored, the stored random flag is true only if
\* the stored loop flag is true; an Open or updateSettings asking for
\* loop=false, random=true stores random=false.
C2_RandomImpliesLoop ==
    /\ projectorSettings # NullSettings =>
          (projectorSettings.random => projectorSettings.loop)
    /\ (/\ cmd.op \in {"open", "updateSettings"}
        /\ result.success
        /\ ~cmd.settings.loop) => projectorSettings.random = FALSE

\* updateSettings({loop:false, random:true}) has stored random=false
C2_Witness ==
    /\ cmd.op = "updateSettings"
    /\ result.success
    /\ cmd.settings.random
    /\ ~cmd.settings.loop
    /\ projectorSettings.random = FALSE

\* C3: whenever the order is non-empty, 0 <= cursor < len(order), also after
\* replaceItems shrinks the list and after updateSettings regenerates the order.
C3_CursorInRange ==
    Len(projectorFilesOrder) > 0 =>
        /\ 0 <= currentProjectorIndex
        /\ currentProjectorIndex < Len(projectorFilesOrder)

\* replaceItems found the cursor beyond the new list and clamped it to the last position
C3_Witness ==
    /\ cmd.op = "updateFiles"
    /\ result.success
    /\ Len(projectorFilesOrder) > 0
    /\ cmd.pre.cursor >= Len(projectorFilesOrder)
    /\ currentProjectorIndex = Len(projectorFilesOrder) - 1

\* C4: between commands the session is never both playing and in Background.
C4_NeverPlayingInBackground ==
    ~(isProjectorPlaying /\ isShowingBackground)

\* C5 (as claimed): with Background active, the item list is empty or loop is false.
C5_BackgroundOnlyWithoutLoop ==
    isShowingBackground =>
        (Len(projectorFiles) = 0 \/ LoopDisabled(projectorSettings))

\* The current position is an end of the order in the direction of the advance
AtEnd(direction) ==
    \/ direction = "next" /\ currentProjectorIndex = Len(projectorFilesOrder) - 1
    \/ direction = "previous" /\ currentProjectorIndex = 0

\* C5 (amended): every step that turns Background on is an advance past an
\* end with loop = false, an advance or replaceItems on an empty item list, or
\* an index-change notification with a negative index; and Background left on
\* by an advance comes with an empty item list or loop = false.
C5_BackgroundEntry ==
    [][/\ (~isShowingBackground /\ isShowingBackground') =>
            \/ /\ cmd'.op = "navigate"
               /\ \/ Len(projectorFiles) = 0
                  \/ LoopDisabled(projectorSettings) /\ AtEnd(cmd'.dir)
            \/ cmd'.op = "updateFiles" /\ Len(projectorFiles') = 0
            \/ cmd'.op = "notifyIndexChange" /\ cmd'.index < 0
       /\ (cmd'.op = "navigate" /\ isShowingBackground') =>
            (Len(projectorFiles') = 0 \/ LoopDisabled(projectorSettings'))
      ]_vars

\* Background entered by advance(previous) at position 0 with loop = false
C5_Witness ==
    /\ cmd.op = "navigate"
    /\ cmd.dir = "previous"
    /\ ~cmd.pre.background
    /\ isShowingBackground
    /\ Len(projectorFiles) > 0
    /\ LoopDisabled(projectorSettings)

\* The k-th index a linear run of next over n items announces: 1, ..., n-1, -1, 0
LinearExpected(n, k) == IF k < n THEN k ELSE IF k = n THEN -1 ELSE 0

\* C6: with N > 0 items, loop = false, random = false and the cursor at 0
\* after Open, successive advance(next) commands announce 1, 2, ..., N-1, then
\* -1 (Background); one more advance(next) yields position 0 and announces
\* order[0].
C6_LinearSequence ==
    (/\ announced.ok
     /\ Len(projectorFiles) > 0
     /\ LoopDisabled(projectorSettings)) =>
        /\ \A k \in 1..Len(announced.seq) :
              announced.seq[k] = LinearExpected(Len(projectorFiles), k)
        /\ (Len(announced.seq) > 0 /\ cmd.op = "navigate") =>
              /\ result.index = announced.seq[Len(announced.seq)]
              /\ Len(toProjector) > 0
              /\ toProjector[Len(toProjector)].ch = "projector-navigate"
              /\ toProjector[Len(toProjector)].index = result.index
              /\ toMain = notifyMainWindow(toProjector)
        /\ Len(announced.seq) = Len(projectorFiles) =>
              isShowingBackground
        /\ Len(announced.seq) = Len(projectorFiles) + 1 =>
              /\ currentProjectorIndex = 0
              /\ ~isShowingBackground
              /\ result.index = At(projectorFilesOrder, 0)

\* The whole run over MaxFiles items: 1, ..., N-1, -1 and back to 0
C6_Witness ==
    /\ announced.ok
    /\ LoopDisabled(projectorSettings)
    /\ Len(projectorFiles) = MaxFiles
    /\ Len(announced.seq) = MaxFiles + 1
    /\ announced.seq[MaxFiles] = -1
    /\ announced.seq[MaxFiles + 1] = 0

\* The advance command of this step, issued with a display surface and a
\* non-empty order
Advances(direction) ==
    /\ cmd'.op = "navigate"
    /\ cmd'.dir = direction
    /\ isProjectorWindowValid
    /\ Len(projectorFiles) > 0
    /\ Len(projectorFilesOrder) > 0

\* C7: when advance would leave [0, len(order)) and loop = false, playing
\* becomes false, Background is entered, each present surface receives
\* PlayPause(false) and then Navigate(-1), and the cursor is not moved.
C7_StopAtEnd ==
    [][\A direction \in Directions :
         (/\ Advances(direction)
          /\ ~isShowingBackground
          /\ LoopDisabled(projectorSettings)
          /\ AtEnd(direction)) =>
             /\ isProjectorPlaying' = FALSE
             /\ isShowingBackground' = TRUE
             /\ currentProjectorIndex' = currentProjectorIndex
             /\ toProjector' = <<PlayPause(FALSE), Nav(-1)>>
             /\ IF mainWindow
                THEN toMain' = <<PlayPause(FALSE), Nav(-1)>>
                ELSE toMain' = <<>>
             /\ result'.success /\ result'.index = -1
      ]_vars

\* advance(next) at the last position stopped a playing session
C7_Witness ==
    /\ cmd.op = "navigate"
    /\ cmd.dir = "next"
    /\ ~cmd.pre.background
    /\ cmd.pre.cursor = Len(projectorFilesOrder) - 1
    /\ Len(projectorFilesOrder) > 1
    /\ LoopDisabled(projectorSettings)
    /\ isShowingBackground
    /\ ~isProjectorPlaying
    /\ projectorSettings.enableTimeBetweenElements
    /\ Len(toMain) = 2

\* C8: in Background with a non-empty order, advance(next) sets the cursor
\* to position 0 and advance(previous) to the last position; Background is
\* cleared and Navigate(order[cursor]) goes to both surfaces, whatever the
\* loop flag.
C8_ResumeFromBackground ==
    [][\A direction \in Directions :
         (Advances(direction) /\ isShowingBackground) =>
             /\ currentProjectorIndex' =
                   (IF direction = "next" THEN 0
                    ELSE Len(projectorFilesOrder) - 1)
             /\ isShowingBackground' = FALSE
             /\ toProjector' =
                   <<Nav(At(projectorFilesOrder', currentProjectorIndex'))>>
             /\ toMain' = notifyMainWindow(toProjector')
             /\ result'.success
             /\ result'.index = At(projectorFilesOrder', currentProjectorIndex')
      ]_vars

\* advance(previous) left the Background for the last position, loop on
C8_Witness ==
    /\ cmd.op = "navigate"
    /\ cmd.dir = "previous"
    /\ cmd.pre.background
    /\ ~isShowingBackground
    /\ Len(projectorFilesOrder) > 1
    /\ currentProjectorIndex = Len(projectorFilesOrder) - 1
    /\ projectorSettings.loop
    /\ Len(toProjector) = 1

\* C9: with loop = true and a non-empty item list, advance wraps: next from
\* the last position yields position 0, previous from position 0 yields the
\* last position, and no advance turns Background on or changes playing.
C9_LoopWraps ==
    [][\A direction \in Directions :
         (/\ Advances(direction)
          /\ projectorSettings # NullSettings
          /\ projectorSettings.loop) =>
             /\ isShowingBackground' = FALSE
             /\ isProjectorPlaying' = isProjectorPlaying
             /\ (~isShowingBackground /\ AtEnd(direction)) =>
                   currentProjectorIndex' =
                       (IF direction = "next" THEN 0
                        ELSE Len(projectorFilesOrder) - 1)
             /\ result'.index = At(projectorFilesOrder, currentProjectorIndex')
      ]_vars

\* advance(next) wrapped from the last position to position 0 while playing
C9_Witness ==
    /\ cmd.op = "navigate"
    /\ cmd.dir = "next"
    /\ ~cmd.pre.background
    /\ Len(projectorFilesOrder) > 1
    /\ cmd.pre.cursor = Len(projectorFilesOrder) - 1
    /\ currentProjectorIndex = 0
    /\ projectorSettings.loop
    /\ ~projectorSettings.random
    /\ isProjectorPlaying
    /\ ~isShowingBackground

\* C10: with loop = true, random = true and len(order) > 1, an advance that
\* starts outside Background announces an item different from order[cursor]
\* before the command.
C10_NoRepeatOnWrap ==
    [][\A direction \in Directions :
         (/\ Advances(direction)
          /\ RandomLoop(projectorSettings)
          /\ Len(projectorFilesOrder) > 1
          /\ ~isShowingBackground) =>
             /\ result'.index # At(projectorFilesOrder, currentProjectorIndex)
             /\ result'.index = At(projectorFilesOrder', currentProjectorIndex')
             /\ toProjector' = <<Nav(result'.index)>>
             /\ toMain' = notifyMainWindow(toProjector')
      ]_vars

\* advance(previous) wrapped in a shuffled order and announced another item
C10_Witness ==
    /\ cmd.op = "navigate"
    /\ cmd.dir = "previous"
    /\ ~cmd.pre.background
    /\ cmd.pre.cursor = 0
    /\ RandomLoop(projectorSettings)
    /\ Len(projectorFilesOrder) > 1
    /\ projectorFilesOrder # IndexMap(Len(projectorFilesOrder))
    /\ currentProjectorIndex = Len(projectorFilesOrder) - 1
    /\ result.index = At(projectorFilesOrder, currentProjectorIndex)
    /\ result.index # At(projectorFilesOrder, 0)

\* Every position of the order holds the same entry
AllSame(order) == \A k \in 1..Len(order) : order[k] = order[1]

\* C11: the repeat-avoidance loop of advance always terminates: for any order
\* content (an order whose every position resolves to the same item
\* included) it performs at most len(order) probes and then accepts the
\* repeat, so every advance completes with a position.
C11_ScanTerminates ==
    /\ [](/\ scan.probes <= Len(projectorFilesOrder)
          /\ scan.pc = "done" =>
                /\ currentProjectorIndex \in 0..(Len(projectorFilesOrder) - 1)
                /\ currentProjectorIndex =
                      (IF scan.dir = "next"
                       THEN NextTarget(projectorFilesOrder, scan.from,
                                       projectorSettings)
                       ELSE PreviousTarget(projectorFilesOrder, scan.from,
                                           projectorSettings))
                /\ (AllSame(projectorFilesOrder) /\ scan.probes > 0) =>
                      /\ scan.probes = Len(projectorFilesOrder)
                      /\ currentProjectorIndex = scan.startIndex
                      /\ At(projectorFilesOrder, currentProjectorIndex)
                            = scan.currentFileIndex)
    /\ <>(scan.pc = "done")

\* The scan went once round an order of one repeated item and accepted the repeat
C11_Witness ==
    /\ scan.pc = "done"
    /\ Len(projectorFilesOrder) = MaxFiles
    /\ AllSame(projectorFilesOrder)
    /\ scan.probes = MaxFiles
    /\ currentProjectorIndex = scan.startIndex

\* The Navigate events of the last step, on either surface
NavigateIndices ==
    {toProjector[k].index : k \in {j \in 1..Len(toProjector) :
                                     toProjector[j].ch = "projector-navigate"}}
    \cup {toMain[k].index : k \in {j \in 1..Len(toMain) :
                                     toMain[j].ch = "projector-navigate"}}

\* C12: every Navigate event the coordinator emits carries -1 or an item
\* index i, 0 <= i < N, equal to order[cursor] at the moment of emission.
C12_NavigateCarriesCurrentItem ==
    \A i \in NavigateIndices :
        \/ i = -1
        \/ /\ i \in 0..(Len(projectorFiles) - 1)
           /\ i = At(projectorFilesOrder, currentProjectorIndex)

\* C13: while a display surface is active, jumpTo(i) succeeds for every i
\* present in the order, and the current-item query right after a successful
\* jumpTo(i) yields i, whatever the loop and shuffle settings and whether or
\* not the session was in Background.
C13_JumpThenQuery ==
    cmd.op = "jumpTo" =>
        /\ result.success => GetProjectorFilesIndex = cmd.index
        /\ (/\ isProjectorWindowValid
            /\ IndexOf(projectorFilesOrder, cmd.index) >= 0) => result.success

\* A jump out of Background in a shuffled order, the query answering the item jumped to
C13_Witness ==
    /\ cmd.op = "jumpTo"
    /\ result.success
    /\ cmd.pre.background
    /\ RandomLoop(projectorSettings)
    /\ projectorFilesOrder # IndexMap(Len(projectorFilesOrder))
    /\ currentProjectorIndex # cmd.index
    /\ GetProjectorFilesIndex = cmd.index

\* C14: jumpTo(itemIndex) with itemIndex < 0, itemIndex >= N, an index not
\* in the order, an empty item list or no display surface reports failure,
\* emits no event and leaves cursor, Background, playing, order and settings
\* unchanged.
C14_JumpRejected ==
    [][(/\ cmd'.op = "jumpTo"
        /\ \/ cmd'.index < 0
           \/ cmd'.index >= Len(projectorFiles)
           \/ IndexOf(projectorFilesOrder, cmd'.index) < 0
           \/ Len(projectorFiles) = 0
           \/ ~isProjectorWindowValid) =>
            /\ result'.success = FALSE
            /\ toProjector' = <<>>
            /\ toMain' = <<>>
            /\ UNCHANGED session
      ]_vars

\* A jump to an index beyond a non-empty list was refused and the session kept
C14_Witness ==
    /\ cmd.op = "jumpTo"
    /\ isProjectorWindowValid
    /\ Len(projectorFiles) > 0
    /\ cmd.index >= Len(projectorFiles)
    /\ result.success = FALSE
    /\ cmd.pre.cursor = currentProjectorIndex
    /\ cmd.pre.background = isShowingBackground
    /\ isShowingBackground

\* The commands C15 speaks of
SurfaceCommands ==
    {"navigate", "jumpTo", "togglePlayPause", "updateFiles", "updateSettings",
     "seek", "volume", "close"}

\* C15: every command issued while no display surface is active reports
\* failure, leaves the whole session state unchanged and emits no event.
C15_NoSurfaceNoEffect ==
    [][(~isProjectorWindowValid /\ cmd'.op \in SurfaceCommands) =>
            /\ result'.success = FALSE
            /\ UNCHANGED session
            /\ toProjector' = <<>>
            /\ toMain' = <<>>
      ]_vars

\* C16: when togglePlayPause flips playing to true while Background is
\* active and the order is non-empty, the session ends playing, out of
\* Background, at order position 0, and each present surface receives
\* Navigate(order[0]) before PlayPause(true); in every other case the toggle
\* only flips playing and emits exactly PlayPause(new value) to both surfaces.
C16_PlayFromBackground ==
    [][(cmd'.op = "togglePlayPause" /\ isProjectorWindowValid) =>
         /\ IF /\ ~isProjectorPlaying
               /\ isShowingBackground
               /\ Len(projectorFilesOrder) > 0
            THEN /\ isProjectorPlaying' = TRUE
                 /\ isShowingBackground' = FALSE
                 /\ currentProjectorIndex' = 0
                 /\ toProjector' = <<Nav(At(projectorFilesOrder, 0)),
                                     PlayPause(TRUE)>>
            ELSE /\ isProjectorPlaying' = ~isProjectorPlaying
                 /\ UNCHANGED <<currentProjectorIndex, isShowingBackground>>
                 /\ toProjector' = <<PlayPause(~isProjectorPlaying)>>
         /\ toMain' = notifyMainWindow(toProjector')
         /\ UNCHANGED <<projectorFiles, projectorFilesOrder, projectorSettings>>
         /\ result'.success
         /\ result'.isPlaying = isProjectorPlaying'
      ]_vars

\* Play pressed in Background away from position 0: back at the first item, playing
C16_Witness ==
    /\ cmd.op = "togglePlayPause"
    /\ cmd.pre.background
    /\ cmd.pre.cursor # 0
    /\ ~isShowingBackground
    /\ isProjectorPlaying
    /\ currentProjectorIndex = 0
    /\ Len(toProjector) = 2
    /\ Len(toMain) = 2

\* C17: replaceItems(newItems) with a display surface active: a cursor at or
\* beyond the length of the new, non-empty order is set to len(order)-1 and
\* any other cursor is kept; an empty newItems puts the session in Background
\* with Navigate(-1); the display surface receives FilesUpdated(newItems)
\* before the Navigate that re-announces the position, and the control
\* surface receives that same Navigate.
C17_ReplaceItems ==
    [][(cmd'.op = "updateFiles" /\ isProjectorWindowValid) =>
         LET len == Len(projectorFilesOrder') IN
         /\ result'.success
         /\ len = Len(projectorFiles')
         /\ IF len > 0
            THEN /\ currentProjectorIndex' =
                       (IF currentProjectorIndex >= len THEN len - 1
                        ELSE currentProjectorIndex)
                 /\ toProjector' =
                       <<FilesUpdated(projectorFiles'),
                         Nav(At(projectorFilesOrder', currentProjectorIndex'))>>
                 /\ toMain' = notifyMainWindow(
                       <<Nav(At(projectorFilesOrder', currentProjectorIndex'))>>)
            ELSE /\ isShowingBackground'
                 /\ toProjector' = <<FilesUpdated(projectorFiles'), Nav(-1)>>
                 /\ toMain' = notifyMainWindow(<<Nav(-1)>>)
      ]_vars

\* The list shrank under the cursor: the cursor is on the new last item, announced after the files
C17_Witness ==
    /\ cmd.op = "updateFiles"
    /\ result.success
    /\ Len(projectorFilesOrder) > 1
    /\ cmd.pre.cursor >= Len(projectorFilesOrder)
    /\ currentProjectorIndex = Len(projectorFilesOrder) - 1
    /\ toProjector = <<FilesUpdated(projectorFiles),
                       Nav(At(projectorFilesOrder, currentProjectorIndex))>>
    /\ toMain = <<Nav(At(projectorFilesOrder, currentProjectorIndex))>>

\* C18: whenever Open, replaceItems, advance or togglePlayPause completes
\* with an empty item list and a display surface present, the session is in
\* Background and every Navigate of that command carries -1.
C18_EmptyListIsBackground ==
    (/\ cmd.op \in {"open", "updateFiles", "navigate", "togglePlayPause"}
     /\ isProjectorWindowValid
     /\ Len(projectorFiles) = 0) =>
        /\ isShowingBackground
        /\ \A i \in NavigateIndices : i = -1

\* ev is among the events evs
Sent(ev, evs) == \E k \in 1..Len(evs) : evs[k] = ev

\* C19: advance on an empty item list or empty order sets Background and
\* emits Navigate(-1) to both surfaces, and a command arriving while playing
\* also emits PlayPause(false) and leaves playing false.
C19_AdvanceOnEmpty ==
    [][(/\ cmd'.op = "navigate"
        /\ isProjectorWindowValid
        /\ (Len(projectorFiles) = 0 \/ Len(projectorFilesOrder) = 0)) =>
            /\ isShowingBackground'
            /\ Sent(Nav(-1), toProjector')
            /\ mainWindow => Sent(Nav(-1), toMain')
            /\ isProjectorPlaying =>
                  /\ Sent(PlayPause(FALSE), toProjector')
                  /\ mainWindow => Sent(PlayPause(FALSE), toMain')
            /\ isProjectorPlaying' = FALSE
      ]_vars

\* C20: updateSettings regenerates the order only when the normalized shuffle
\* value changes: an updateSettings whose normalized shuffle value is the
\* stored one (the same settings again, or a change of other fields only)
\* leaves the order as it was.
C20_NoSpuriousReshuffle ==
    [][(/\ cmd'.op = "updateSettings"
        /\ isProjectorWindowValid
        /\ projectorSettings # NullSettings
        /\ ValidatedSettings(cmd'.settings).random = projectorSettings.random) =>
            projectorFilesOrder' = projectorFilesOrder
      ]_vars

\* The settings as the spec normalizes them: shuffle only together with loop
Normalized(settings) ==
    [loop |-> settings.loop,
     random |-> settings.loop /\ settings.random,
     enableTimeBetweenElements |-> settings.enableTimeBetweenElements]

\* C21: updateSettings with a display surface leaves cursor, Background,
\* playing and the item list unchanged, sends exactly one SettingsChanged
\* carrying the normalized settings to the display surface, and sends nothing
\* to the control surface.
C21_UpdateSettingsFrame ==
    [][(cmd'.op = "updateSettings" /\ isProjectorWindowValid) =>
            /\ UNCHANGED <<currentProjectorIndex, isShowingBackground,
                           isProjectorPlaying, projectorFiles>>
            /\ projectorSettings' = Normalized(cmd'.settings)
            /\ toProjector' = <<SettingsEv(Normalized(cmd'.settings))>>
            /\ toMain' = <<>>
            /\ result'.success
      ]_vars

\* Shuffle with loop switched on in mid-session, away from position 0 and playing
C21_Witness ==
    /\ cmd.op = "updateSettings"
    /\ result.success
    /\ cmd.settings.random
    /\ cmd.settings.loop
    /\ toProjector = <<SettingsEv(cmd.settings)>>
    /\ toMain = <<>>
    /\ mainWindow
    /\ currentProjectorIndex > 0
    /\ isProjectorPlaying
    /\ Len(projectorFiles) > 1

\* Navigation, playback and pass-through commands
PlaybackCommands ==
    {"navigate", "jumpTo", "togglePlayPause", "notifyIndexChange", "seek",
     "volume", "videoProgress", "timerProgress"}

\* C22: the order is stable under navigation and playback: advance, jumpTo,
\* togglePlayPause, index-change notifications, seek, volume and progress
\* telemetry never change the order or the item list; a step that changes
\* either is an Open, a close of the surface, a replaceItems or an
\* updateSettings.
C22_OrderStable ==
    [][/\ cmd'.op \in PlaybackCommands =>
              UNCHANGED <<projectorFilesOrder, projectorFiles>>
       /\ (\/ projectorFilesOrder' # projectorFilesOrder
           \/ projectorFiles' # projectorFiles) =>
              cmd'.op \in {"open", "closed", "updateFiles", "updateSettings"}
      ]_vars

\* A seek during playback in a shuffled order: the cursor, the order and the list as they were
C22_Witness ==
    /\ cmd.op = "seek"
    /\ result.success
    /\ isProjectorPlaying
    /\ RandomLoop(projectorSettings)
    /\ Len(projectorFiles) = MaxFiles
    /\ projectorFilesOrder # IndexMap(MaxFiles)
    /\ IsPermutation(projectorFilesOrder, MaxFiles)
    /\ cmd.pre.cursor = currentProjectorIndex
    /\ currentProjectorIndex > 0

\* C23: Open issued while a display surface exists never tears down or
\* recreates the surface: the window stays as it is (neither gone nor a fresh
\* one still to load) and is the one that receives the new settings, no
\* surface-closed notification goes to the control surface, and the session
\* is not put through the reset of the close handler.
C23_OpenKeepsSurface ==
    [][(cmd'.op = "open" /\ projectorWindow # "null") =>
            /\ projectorWindow' = projectorWindow
            /\ Len(toProjector') > 0
            /\ toProjector'[1] = SettingsEv(projectorSettings')
            /\ ~Sent(ClosedEv, toMain')
            /\ projectorSettings' # NullSettings
            /\ result'.success
      ]_vars

\* Open on a loaded surface showing the second item: the surface is still loaded and was re-synchronized
C23_Witness ==
    /\ cmd.op = "open"
    /\ cmd.pre.cursor > 0
    /\ projectorWindow = "loaded"
    /\ Len(projectorFiles) > 1
    /\ Len(toProjector) > 0
    /\ toProjector[1] = SettingsEv(projectorSettings)
    /\ Sent(Opened, toMain)

\* The item on show: -1 in Background, order[cursor] otherwise
CurrentItem ==
    IF isShowingBackground THEN -1
    ELSE At(projectorFilesOrder, currentProjectorIndex)

\* C24: Open issued while a display surface exists re-announces the current
\* position: with the item list (one that has a current item, so a non-empty
\* one) and the shuffle flag unchanged, the cursor, the Background flag and
\* the playing flag are kept, and the Navigate sent names the item that was
\* current before the call.
C24_OpenKeepsPosition ==
    [][(/\ cmd'.op = "open"
        /\ isProjectorWindowValid
        /\ projectorSettings # NullSettings
        /\ Len(projectorFiles) > 0
        /\ projectorFiles' = projectorFiles
        /\ Normalized(cmd'.settings).random = projectorSettings.random) =>
            /\ UNCHANGED <<currentProjectorIndex, isShowingBackground,
                           isProjectorPlaying>>
            /\ Sent(Nav(CurrentItem), toProjector')
      ]_vars

\* evs holds a Navigate
HasNavigate(evs) == \E k \in 1..Len(evs) : evs[k].ch = "projector-navigate"

\* C25: Open with no surface creates one; once the surface signals readiness
\* it receives the settings and an initial Navigate(order[0]); playing is
\* true and PlayPause(true) goes to both surfaces if and only if auto-advance
\* is enabled, otherwise playing is false and no PlayPause is sent; no
\* Navigate is sent to the display surface before it is ready.
C25_OpenThenReady ==
    [][/\ (cmd'.op = "open" /\ ~isProjectorWindowValid) =>
              /\ projectorWindow' = "loading"
              /\ isProjectorPlaying' = cmd'.settings.enableTimeBetweenElements
       /\ projectorWindow' = "loading" => ~HasNavigate(toProjector')
       /\ (cmd'.op = "didFinishLoad" /\ Len(projectorFilesOrder) > 0) =>
              LET auto == projectorSettings.enableTimeBetweenElements
                  pp == IF auto THEN <<PlayPause(TRUE)>> ELSE <<>>
              IN  /\ projectorWindow' = "loaded"
                  /\ toProjector' = <<SettingsEv(projectorSettings),
                                      Nav(At(projectorFilesOrder, 0))>> \o pp
                  /\ isProjectorPlaying' = auto
                  /\ mainWindow => (Sent(PlayPause(TRUE), toMain') <=> auto)
                  /\ ~Sent(PlayPause(FALSE), toMain')
      ]_vars

\* The Navigate and PlayPause events of evs that the other surface was sent too
Shared(evs, other) ==
    SelectSeq(evs, LAMBDA e :
        /\ e.ch \in {"projector-navigate", "projector-play-pause"}
        /\ Sent(e, other))

\* C26: delivery is order-preserving per target: the Navigate and PlayPause
\* events of a command that both surfaces receive reach the control surface
\* in the same relative order as the display surface, the initial Navigate
\* and PlayPause(true) of Open included.
C26_SameOrderOnBothSurfaces ==
    Shared(toMain, toProjector) = Shared(toProjector, toMain)

\* C27: when the display surface closes, the session is reset (cursor 0,
\* playing false, Background false, order and item list empty) and the
\* control surface is notified exactly once that the surface closed, by that
\* step and by no other; Close with no display surface reports failure,
\* changes nothing and sends nothing.
C27_CloseResets ==
    [][/\ cmd'.op = "closed" =>
              /\ projectorWindow # "null"
              /\ projectorWindow' = "null"
              /\ currentProjectorIndex' = 0
              /\ isProjectorPlaying' = FALSE
              /\ isShowingBackground' = FALSE
              /\ projectorFilesOrder' = <<>>
              /\ projectorFiles' = <<>>
              /\ toMain' = notifyMainWindow(<<ClosedEv>>)
              /\ toProjector' = <<>>
       /\ Sent(ClosedEv, toMain') => cmd'.op = "closed"
       /\ (cmd'.op = "close" /\ projectorWindow = "null") =>
              /\ result'.success = FALSE
              /\ UNCHANGED <<session, projectorWindow>>
              /\ toMain' = <<>>
              /\ toProjector' = <<>>
      ]_vars

\* A session at its last item was closed: everything is back at its initial value
C27_Witness ==
    /\ cmd.op = "closed"
    /\ cmd.pre.cursor = MaxFiles - 1
    /\ toMain = <<ClosedEv>>
    /\ projectorWindow = "null"
    /\ currentProjectorIndex = 0
    /\ ~isProjectorPlaying
    /\ ~isShowingBackground
    /\ projectorFiles = <<>>
    /\ projectorFilesOrder = <<>>

\* C29: pass-through messages never touch engine state: VideoProgress and
\* TimerProgress are forwarded to the control surface only, SeekVideo and
\* SetVolume to the display surface only, each carrying the value it was
\* given, and none of the four changes items, order, cursor, playing,
\* Background or settings.
C29_PassThrough ==
    [][/\ cmd'.op \in {"videoProgress", "timerProgress", "seek", "volume"} =>
              UNCHANGED <<session, projectorWindow, mainWindow>>
       /\ cmd'.op = "videoProgress" =>
              /\ toMain' = notifyMainWindow(<<VideoProgressEv(cmd'.index)>>)
              /\ toProjector' = <<>>
       /\ cmd'.op = "timerProgress" =>
              /\ toMain' = notifyMainWindow(<<TimerProgressEv(cmd'.index)>>)
              /\ toProjector' = <<>>
       /\ cmd'.op = "seek" =>
              /\ toProjector' = notifyProjectorWindow(<<SeekEv(cmd'.index)>>)
              /\ toMain' = <<>>
       /\ cmd'.op = "volume" =>
              /\ toProjector' = notifyProjectorWindow(<<VolumeEv(cmd'.index)>>)
              /\ toMain' = <<>>
      ]_vars

\* Video progress reported in mid-session while playing: the control surface alone received it
C29_Witness ==
    /\ cmd.op = "videoProgress"
    /\ cmd.index = 1
    /\ projectorWindow = "loaded"
    /\ toMain = <<VideoProgressEv(1)>>
    /\ toProjector = <<>>
    /\ isProjectorPlaying
    /\ currentProjectorIndex > 0
    /\ cmd.pre.cursor = currentProjectorIndex

\* Loop on, shuffle off
LoopOnly(settings) ==
    settings # NullSettings /\ settings.loop /\ ~settings.random

\* C30: commands are handled one at a time, in arrival order, none merged
\* with another: with loop = true, shuffle off and N items, each advance(next)
\* outside Background moves the cursor from p to (p + 1) mod N and sends
\* exactly one Navigate, naming the new item, to each surface; so the k-th of
\* k consecutive advance(next) commands after Open announces item k mod N
\* and leaves the cursor at k mod N.
C30_NoCoalescing ==
    /\ [][(/\ Advances("next")
           /\ LoopOnly(projectorSettings)
           /\ ~isShowingBackground) =>
              LET n == Len(projectorFiles)
                  q == (currentProjectorIndex + 1) % n
              IN  /\ currentProjectorIndex' = q
                  /\ toProjector' = <<Nav(q)>>
                  /\ toMain' = notifyMainWindow(<<Nav(q)>>)
                  /\ result'.success
                  /\ result'.index = q
         ]_vars
    /\ [](( /\ announced.ok
            /\ Len(projectorFiles) > 0
            /\ LoopOnly(projectorSettings)) =>
              LET n == Len(projectorFiles)
                  k == Len(announced.seq)
              IN  /\ \A j \in 1..k : announced.seq[j] = j % n
                  /\ currentProjectorIndex = k % n
                  /\ ~isShowingBackground)

\* MaxFiles + 1 advances in a row over MaxFiles items: once round and one further
C30_Witness ==
    /\ announced.ok
    /\ LoopOnly(projectorSettings)
    /\ Len(projectorFiles) = MaxFiles
    /\ Len(announced.seq) = MaxFiles + 1
    /\ announced.seq[MaxFiles] = 0
    /\ announced.seq[MaxFiles + 1] = 1 % MaxFiles
    /\ currentProjectorIndex = 1 % MaxFiles
    /\ cmd.op = "navigate"
    /\ toProjector = <<Nav(1 % MaxFiles)>>
    /\ toMain = <<Nav(1 % MaxFiles)>>

\* C38: the current-item query agrees with the session: get-projector-files
\* returns currentIndex = -1 exactly when Background is active or the order
\* is empty, and order[cursor] otherwise.
C38_QueryAgrees ==
    cmd.op = "getFiles" =>
        result.currentIndex =
            IF isShowingBackground \/ Len(projectorFilesOrder) = 0
            THEN -1
            ELSE At(projectorFilesOrder, currentProjectorIndex)

\* C40: with a display surface, replaceItems with a non-empty list leaves
\* the session outside Background, sends FilesUpdated and then Navigate of
\* order[cursor] to the display surface and that Navigate to the control
\* surface, whether or not the session was in Background before, and
\* leaves playing as it was.
C40_ReplaceLeavesBackground ==
    [][(/\ cmd'.op = "updateFiles"
        /\ isProjectorWindowValid
        /\ Len(projectorFiles') > 0) =>
           LET item == At(projectorFilesOrder', currentProjectorIndex') IN
           /\ ~isShowingBackground'
           /\ item \in 0..(Len(projectorFiles') - 1)
           /\ toProjector' = <<FilesUpdated(projectorFiles'), Nav(item)>>
           /\ toMain' = notifyMainWindow(<<Nav(item)>>)
           /\ isProjectorPlaying' = isProjectorPlaying
      ]_vars

\* A list replaced in Background after a non-looping run ended at its last
\* item: the session is back on that item and still paused
C40_Witness ==
    /\ cmd.op = "updateFiles"
    /\ cmd.pre.background
    /\ cmd.pre.cursor = MaxFiles - 1
    /\ LoopDisabled(projectorSettings)
    /\ Len(projectorFiles) = MaxFiles
    /\ ~isShowingBackground
    /\ currentProjectorIndex = MaxFiles - 1
    /\ toProjector = <<FilesUpdated(projectorFiles), Nav(MaxFiles - 1)>>
    /\ ~isProjectorPlaying

\* What the slider shows: value={...} of the range input
SliderValue(a) ==
    IF a.isDraggingProgress /\ a.draggedProgressValue # Null
    THEN a.draggedProgressValue
    ELSE IF a.videoProgress # Null THEN a.videoProgress
    ELSE IF a.timerProgress # Null THEN a.timerProgress
    ELSE 0

\* C32: while a drag-to-seek is pending, a VideoProgress update is accepted
\* only if its time is within 0.5 s of the seek target, and then it ends the
\* pending state; any other VideoProgress is ignored: the pending flag, the
\* target and the stored progress stay and the slider keeps showing what it
\* showed.
C32_SeekTolerance ==
    [][(/\ app'.last.ch = "projector-video-progress"
        /\ app.isDraggingProgress) =>
           LET currentTime == app'.last.value
               target == app.draggedProgressValue
           IN  IF target # Null /\ Abs(currentTime - target) < SeekTolerance
               THEN /\ ~app'.isDraggingProgress
                    /\ app'.videoProgress = currentTime
                    /\ SliderValue(app') = currentTime
               ELSE /\ app'.isDraggingProgress
                    /\ app'.draggedProgressValue = target
                    /\ app'.videoProgress = app.videoProgress
                    /\ SliderValue(app') = SliderValue(app)
      ]_vars

\* A progress half a second off the target of a pending seek was ignored
C32_Witness ==
    /\ app.last = [ch |-> "projector-video-progress", value |-> 0]
    /\ app.isDraggingProgress
    /\ app.draggedProgressValue = SeekTolerance
    /\ app.videoProgress = MaxTime
    /\ SliderValue(app) = SeekTolerance

\* C33: the pending flag of a drag-to-seek, once set, is eventually cleared,
\* by a matching progress update or by the fallback timeout, even if no
\* matching progress ever arrives.
C33_PendingCleared ==
    app.isDraggingProgress ~> ~app.isDraggingProgress

\* C31: the display surface's auto-advance and timer-progress intervals do
\* not outlive a change of the displayed item, the file list, the playing
\* state or the auto-advance setting: there is at most one of each, it was
\* created for the current index and list, and none runs while paused,
\* with auto-advance off, in Background or on a video.
C31_TimersFollowState ==
    \A timers \in {view.playInterval, view.timerProgressInterval} :
        /\ Len(timers) <= 1
        /\ \A k \in DOMAIN timers :
              /\ timers[k].index = view.currentIndex
              /\ timers[k].files = view.files
              /\ view.isPlaying
              /\ view.settings.enableTimeBetweenElements
              /\ view.currentIndex # -1
              /\ CurrentType(view) = "image"

\* The interval of the last item has fired and its advance is on its way,
\* the interval still running for that item
C31_Witness ==
    /\ view.playInterval = <<[index |-> MaxFiles - 1,
                              files |-> FilesOfLen(MaxFiles)]>>
    /\ view.timerProgressInterval = view.playInterval
    /\ view.currentIndex = MaxFiles - 1
    /\ view.isAutoPlayChange
    /\ wire.toCoordinator = <<Request("view", "navigate", "next", 0)>>

\* No message in flight between the coordinator and either surface, the
\* display surface open, loaded and mounted with nothing left to load
Quiescent ==
    /\ Idle
    /\ wire.toCoordinator = <<>>
    /\ wire.toView = <<>>
    /\ wire.toApp = <<>>
    /\ wire.loaded = NoSnapshot
    /\ ~wire.closing
    /\ projectorWindow = "loaded"
    /\ view.mounted
    /\ ~view.loading
    /\ view.reloading = 0

\* C34: in every quiescent state the item index shown by the display
\* surface, the item index shown by the control surface and the index last
\* announced by the coordinator are equal, under any interleaving of
\* operator commands with auto-advance requests and index-change
\* notifications of the display surface.
C34_SingleSourceOfTruth ==
    Quiescent =>
        /\ view.currentIndex = wire.lastAnnounced
        /\ app.currentProjectorIndex = wire.lastAnnounced

\* C35: with loop and shuffle on and more than one item, an advance never
\* emits a Navigate whose item index is the index of the most recent
\* Navigate sent to the display surface before it, even when updateSettings
\* or replaceItems regenerated the order in between.
C35_NeverTwiceInARow ==
    [][(/\ Idle
        /\ cmd'.op = "navigate"
        /\ cmd'.dir = "next"
        /\ RandomLoop(projectorSettings)
        /\ Len(projectorFiles) > 1
        /\ wire.lastNavigate # Null)
       => \A k \in DOMAIN toProjector' :
             toProjector'[k].ch = "projector-navigate"
                 => toProjector'[k].index # wire.lastNavigate]_vars

\* C36: the auto-advance timer the display surface started for item i asks
\* for an advance only while the coordinator's cursor is still on i.
C36_TimerAdvancesItsOwnItem ==
    [][(/\ view.playInterval # <<>>
        /\ view'.isAutoPlayChange
        /\ wire'.commands = wire.commands
        /\ Len(wire'.toCoordinator) > Len(wire.toCoordinator)
        /\ wire'.toCoordinator[Len(wire'.toCoordinator)] =
               Request("view", "navigate", "next", 0))
       => /\ ~isShowingBackground
          /\ At(projectorFilesOrder, currentProjectorIndex) =
                 view.playInterval[1].index]_vars

\* C37: in every quiescent state with a display surface open, the
\* coordinator's playing flag, the control surface's isPlaying and the
\* display surface's isPlaying are equal, for every settings combination
\* and after Background is entered through an empty item list.
C37_PlayingAgrees ==
    Quiescent =>
        /\ view.isPlaying = isProjectorPlaying
        /\ app.isPlaying = isProjectorPlaying

\* C39: in every quiescent state with a display surface open, the item list
\* held by the display surface equals the coordinator's item list, after
\* replaceItems and after Open on an already-existing surface.
C39_ListsAgree ==
    Quiescent => view.files = projectorFiles

====
